---- MODULE Spec2Model ----
(***************************************************************************)
(* Model of op-probe's withdrawal commands (list, prove, finalize) and of  *)
(* the L1 contracts they read and drive.                                   *)
(*                                                                         *)
(* The chain is one withdrawal, the latest anchored dispute game of the    *)
(* factory, the dispute game the withdrawal was proven against, and the    *)
(* portal's records for the withdrawal. Every command invocation is a      *)
(* process whose steps are the RPCs of its Action function, in source      *)
(* order; between two RPCs of one invocation the chain, the clock and the  *)
(* other invocations may move.                                             *)
(***************************************************************************)
EXTENDS Integers, Sequences, FiniteSets, TLC

\* ------------------------------------------------------------- bounds
MaxTime == 4          \* the clock runs from 1 to MaxTime (seconds)
MaxBlock == 2         \* the latest game claims a block in 0..MaxBlock
MaxClock == 2         \* maxClockDuration of the game is 1..MaxClock
WithdrawalBlock == 1  \* the L2 block of the withdrawal transaction
ProofMaturityDelay == 1   \* the portal's proofMaturityDelaySeconds
FinalityDelay == 1    \* the portal's disputeGameFinalityDelaySeconds
MaxInvocations == 3   \* invocations of the prove and finalize commands
MaxListCalls == 3     \* invocations of the list commands
MaxClients == 2       \* length of the list given to WaitForChainsStart
MaxHead == 1          \* an endpoint's head is a block in 0..MaxHead
DurationBits == 16    \* width of the model's time.Duration (Go: 64)

\* time.Second, the number of Duration units in one second (Go: 10^9),
\* scaled with DurationBits so that the products stay in TLC's integers.
Second == 4

NoGame == 0 - 1       \* FindLatestGame found no game
NullAddress == "0x0"  \* common.BytesToAddress([]byte{0})
GameAddress == "game" \* the address of the dispute game proven against

Min(a, b) == IF a < b THEN a ELSE b

\* ---------------------------------------------------- Go conversions
DurationModulus == 2 ^ DurationBits

\* time.Duration(x * uint64(time.Second)) and
\* time.Duration(x.Int64() * int64(time.Second)): the product wraps at the
\* word size and is read as a signed Duration.
ToDuration(seconds) ==
    LET m == (seconds * Second) % DurationModulus
    IN  IF m >= DurationModulus \div 2 THEN m - DurationModulus ELSE m

\* time.Unix(int64(sec), 0) as Duration units since the epoch; a time.Time
\* is not confined to the Duration range.
Unix(seconds) == seconds * Second

\* t.Sub(u): the difference, saturated to the Duration range.
Sub(t, u) ==
    LET diff == t - u
        hi == (DurationModulus \div 2) - 1
        lo == 0 - (DurationModulus \div 2)
    IN  IF diff > hi THEN hi ELSE IF diff < lo THEN lo ELSE diff

\* ------------------------------------------------------------- state
VARIABLES
    now,      \* wall clock and L1 block timestamp, seconds
    conf,     \* what never changes: the withdrawal's L2 block, the game's
              \* maxClockDuration, the portal's delays
    chain,    \* the contracts' state
    inv,      \* per caller: the locals of its current invocation
    tx,       \* per caller: the transaction of its current invocation
    active,   \* the callers that run in this specification
    lister,   \* the locals of the current invocation of a list command
    listed,   \* per list command: the status its calls have returned
    waiter,   \* the call of WaitForChainsStart and the endpoints it polls
    run,      \* a command from its entry to its first transaction
    calc      \* a pure function, its arguments and its results

vars == <<now, conf, chain, inv, tx, active, lister, listed, waiter, run,
          calc>>

Procs == {"a", "b"}
Commands == {"finalize", "prove", "init", "deposit"}

ResolveClaimTx == "ResolveClaim"
ResolveTx == "Resolve"
FinalizeTx == "FinalizeWithdrawalTransaction"
ProveTx == "ProveWithdrawalTransaction"
BridgeETHToTx == "BridgeETHTo"     \* init: L2StandardBridge.BridgeETHTo
DepositETHToTx == "DepositETHTo"   \* deposit: L1StandardBridge.DepositETHTo

\* What a dispute game transaction depends on, as it is at some moment.
GameSnapshot(c) == [resolvedSubgames |-> c.resolvedSubgames, resolvedAt |-> c.resolvedAt]

NoSnapshot == [resolvedSubgames |-> FALSE, resolvedAt |-> 0]

\* sentOn: the game when the transaction was broadcast.
NoTx == [kind |-> "none", status |-> "none", sentOn |-> NoSnapshot]

\* The locals of an invocation before its first statement; finalizedAtStart
\* remembers whether the portal had recorded the finalization when the
\* command was invoked.
NewInvocation(n, cmd) ==
    [ cmd |-> cmd, pc |-> "start", n |-> n, ret |-> "none", msg |-> "",
      attempts |-> <<>>,
      provenTimestamp |-> 0,
      maxClockDuration |-> 0,
      isClaimResolved |-> FALSE,
      challengerDuration |-> 0,
      disputeGameResolvedAt |-> 0,
      gate |-> "none", gateNow |-> 0,
      withdrawalFinalized |-> FALSE,
      checkErr |-> "nil",
      reads |-> {},
      estimatedOn |-> NoSnapshot,
      gameL2BlockNumber |-> NoGame,
      finalizedAtStart |-> FALSE,
      depositStatus |-> "none" ]

\* ------------------------------------------------- the L1 contracts
\* PermissionedDisputeGame.getChallengerDuration(0): the time the root
\* claim's clock has run, capped at the maximum clock duration.
GetChallengerDuration(t) == Min(t - conf.createdAt, conf.maxClockDuration)

\* Whether a transaction of the kind, executed at time t on chain c, succeeds.
Succeeds(kind, c, t) ==
    CASE kind = ProveTx ->
            /\ c.proven.Timestamp = 0
            /\ c.latestGame # NoGame
            /\ c.latestGame >= conf.wdBlock
      [] kind = ResolveClaimTx ->
            /\ ~c.resolvedSubgames
            /\ GetChallengerDuration(t) >= conf.maxClockDuration
      [] kind = ResolveTx ->
            /\ c.resolvedSubgames
            /\ c.resolvedAt = 0
      [] kind = FinalizeTx ->
            /\ c.proven.Timestamp # 0
            /\ c.resolvedAt # 0
            /\ t >= c.proven.Timestamp + conf.proofMaturityDelaySeconds
            /\ t >= c.resolvedAt + conf.finalityDelaySeconds
            /\ ~c.finalized
      [] kind \in {BridgeETHToTx, DepositETHToTx} -> TRUE
      [] OTHER -> FALSE

\* The chain after a successful transaction of the kind at time t.
Effect(kind, c, t) ==
    CASE kind = ProveTx ->
            [c EXCEPT !.proven = [Timestamp |-> t, DisputeGameProxy |-> GameAddress]]
      [] kind = ResolveClaimTx ->
            [c EXCEPT !.resolvedSubgames = TRUE,
                      !.claimResolutions = @ + 1]
      [] kind = ResolveTx ->
            [c EXCEPT !.resolvedAt = t, !.gameResolutions = @ + 1]
      [] kind = FinalizeTx ->
            [c EXCEPT !.finalized = TRUE, !.finalizations = @ + 1]
      [] OTHER -> c

\* ------------------------------------------------ environment steps
\* One second passes.
Tick ==
    /\ now < MaxTime
    /\ now' = now + 1
    /\ UNCHANGED <<conf, chain, inv, tx, active, lister, listed, waiter, run, calc>>

\* The proposer's next game is anchored: the latest game claims a later block.
NewGame ==
    /\ chain.latestGame < MaxBlock
    /\ chain' = [chain EXCEPT !.latestGame = @ + 1]
    /\ UNCHANGED <<now, conf, inv, tx, active, lister, listed, waiter, run, calc>>

\* Another actor (the challenger service, another account) has a transaction
\* of the kind executed successfully.
OtherActor(kind) ==
    /\ Succeeds(kind, chain, now)
    /\ chain' = Effect(kind, chain, now)
    /\ UNCHANGED <<now, conf, inv, tx, active, lister, listed, waiter, run, calc>>

\* The pending transaction of caller p is included in a block and executed.
Mine(p) ==
    /\ tx[p].status = "pending"
    /\ \E ok \in IF Succeeds(tx[p].kind, chain, now) THEN
                    IF tx[p].kind \in {FinalizeTx, BridgeETHToTx, DepositETHToTx}
                    THEN {TRUE, FALSE} ELSE {TRUE}
                 ELSE {FALSE} :
          /\ chain' = IF ok THEN Effect(tx[p].kind, chain, now) ELSE chain
          /\ tx' = [tx EXCEPT ![p].status = IF ok THEN "ok" ELSE "revert"]
    /\ UNCHANGED <<now, conf, inv, active, lister, listed, waiter, run, calc>>

\* --------------------------------------------------- command plumbing
Running(p) == p \in active /\ inv[p].pc \notin {"idle", "done"}

\* Mutant: a failed transaction step is tried once more.
ReturnRetrying(p, ret, msg) ==
    IF /\ ret = "error"
       /\ inv[p].pc \in {"EstimateGas", "SendTransaction", "ForReceiptOK"}
       /\ Len(inv[p].attempts) < 2
    THEN inv' = [inv EXCEPT ![p].pc = "EstimateGas",
                            ![p].attempts = Append(@, @[Len(@)])]
    ELSE inv' = [inv EXCEPT ![p].pc = "done", ![p].ret = ret, ![p].msg = msg]

\* The invocation returns: ret is "nil" or "error", msg the log or error text.
Return(p, ret, msg) ==
    inv' = [inv EXCEPT ![p].pc = "done", ![p].ret = ret, ![p].msg = msg]

Goto(p, pc) == inv' = [inv EXCEPT ![p].pc = pc]

\* The commands run so far, by all callers.
Invocations == inv["a"].n + inv["b"].n

\* The caller runs a command (again).
Invoke(p, cmd) ==
    /\ p \in active
    /\ inv[p].pc \in {"idle", "done"}
    /\ Invocations < MaxInvocations
    /\ inv' = [inv EXCEPT ![p] =
                  [NewInvocation(inv[p].n + 1, cmd) EXCEPT
                      !.finalizedAtStart = chain.finalized]]
    /\ tx' = [tx EXCEPT ![p] = NoTx]
    /\ UNCHANGED <<now, conf, chain, active, lister, listed, waiter, run, calc>>

\* The program counters at which the next statement is an RPC read that
\* returns its error to the caller.
RpcPcs ==
    {"start", "ProvenWithdrawals", "MaxClockDuration", "ResolvedSubgames",
     "GetChallengerDuration", "ResolvedAt", "Gate", "FinalizedWithdrawals",
     "ProveWithdrawalParametersFaultProofs", "FindLatestGame", "BalanceAt"}

\* Any RPC read may fail (dial failure, RPC error): `if err != nil { return ... }`.
RpcFail(p) ==
    /\ Running(p)
    /\ inv[p].pc \in RpcPcs
    /\ Return(p, "error", "rpc")
    /\ UNCHANGED <<now, conf, chain, tx, active, lister, listed, waiter, run, calc>>

\* ------------------------------------------- the transaction submitter
\* The command hands a transaction of the kind to transactions.PadGasEstimate.
Submit(p, kind) ==
    inv' = [inv EXCEPT ![p].pc = "EstimateGas",
                       ![p].attempts = Append(@, kind)]

Kind(p) == inv[p].attempts[Len(inv[p].attempts)]

\* PadGasEstimate, first half: the transaction is built unsent to estimate its
\* gas. The estimate executes the call on the current state and fails when
\* the call reverts; it may fail for any other reason too.
EstimateGas(p) ==
    /\ Running(p)
    /\ inv[p].pc = "EstimateGas"
    /\ \E ok \in IF Succeeds(Kind(p), chain, now) THEN {TRUE, FALSE} ELSE {FALSE} :
          IF ok THEN inv' = [inv EXCEPT ![p].pc = "SendTransaction",
                                        ![p].estimatedOn = GameSnapshot(chain)]
                ELSE Return(p, "error", "failed to send")
    /\ UNCHANGED <<now, conf, chain, tx, active, lister, listed, waiter, run, calc>>

\* PadGasEstimate, second half: the transaction is signed with the padded gas
\* limit and broadcast, or the broadcast fails.
SendTransaction(p) ==
    /\ Running(p)
    /\ inv[p].pc = "SendTransaction"
    /\ \/ /\ tx' = [tx EXCEPT ![p] =
                      [kind |-> Kind(p), status |-> "pending",
                       sentOn |-> GameSnapshot(chain)]]
          /\ Goto(p, "ForReceiptOK")
       \/ /\ Return(p, "error", "failed to send")
          /\ UNCHANGED tx
    /\ UNCHANGED <<now, conf, chain, active, lister, listed, waiter, run, calc>>

\* Mutant: the receipt's status is not looked at.
ReceiptOutcomeAnyStatus(status, kind) ==
    IF kind \in {FinalizeTx, DepositETHToTx} THEN "continue" ELSE "success"

\* Mutant: the revert branch logs the trace and falls through.
ReceiptOutcomeFallsThrough(status, kind) ==
    IF status = "ok" /\ kind \notin {FinalizeTx, DepositETHToTx}
    THEN "success"
    ELSE "continue"

\* What the command does with the receipt wait.ForReceiptOK returned.
ReceiptOutcome(status, kind) ==
    IF status = "ok"
    THEN IF kind \in {FinalizeTx, DepositETHToTx} THEN "continue" ELSE "success"
    ELSE "revert"

\* Mutant: after the receipt of a resolution the command goes on to its next
\* stage instead of returning.
ForReceiptOKGoingOn(p) ==
    /\ Running(p)
    /\ inv[p].pc = "ForReceiptOK"
    /\ \/ /\ tx[p].status \in {"ok", "revert"}
          /\ CASE tx[p].status = "revert" ->
                    Return(p, "error", "failure in transaction execution")
               [] tx[p].kind = ResolveClaimTx -> Goto(p, "ResolvedAt")
               [] tx[p].kind = ResolveTx -> Goto(p, "ResolvedAt")
               [] tx[p].kind = DepositETHToTx -> Goto(p, "FindLog")
               [] tx[p].kind = FinalizeTx -> Goto(p, "BalanceAt")
               [] OTHER -> Return(p, "nil", "successfully executed")
       \/ Return(p, "error", "failed to get transaction receipt")
    /\ UNCHANGED <<now, conf, chain, tx, active, lister, listed, waiter, run, calc>>

\* wait.ForReceiptOK and the statements after it: a receipt with the success
\* status ends the command with a success report (after finalization: the
\* balance is read first); a receipt with the revert status is a
\* ReceiptStatusError; any other failure of the wait is returned as such.
ForReceiptOK(p) ==
    /\ Running(p)
    /\ inv[p].pc = "ForReceiptOK"
    /\ \/ /\ tx[p].status \in {"ok", "revert"}
          /\ LET o == ReceiptOutcome(tx[p].status, tx[p].kind)
             IN  CASE o = "continue" ->
                        Goto(p, IF tx[p].kind = DepositETHToTx
                                THEN "FindLog" ELSE "BalanceAt")
                   [] o = "success" -> Return(p, "nil", "successfully executed")
                   [] OTHER -> Return(p, "error", "failure in transaction execution")
       \/ Return(p, "error", "failed to get transaction receipt")
    /\ UNCHANGED <<now, conf, chain, tx, active, lister, listed, waiter, run, calc>>

\* ------------------------------------------------ the finalize command
\* `if proven.Timestamp == 0`
NotProven(Timestamp) == Timestamp = 0

\* Mutant: the branch on isClaimResolved is inverted.
SubgameUnresolvedInverted(isClaimResolved) == isClaimResolved

\* `if !isClaimResolved`
SubgameUnresolved(isClaimResolved) == ~isClaimResolved

\* Mutant: `<=` for `<`.
ChallengePeriodOpenInclusive(challengerDuration, maxClockDuration) ==
    ToDuration(challengerDuration) <= ToDuration(maxClockDuration)

\* `if challengerDuration < maxClockDuration`, both converted from seconds to
\* time.Duration: the challenge period is still open.
ChallengePeriodOpen(challengerDuration, maxClockDuration) ==
    ToDuration(challengerDuration) < ToDuration(maxClockDuration)

\* Mutant: `!= 0` for `== 0`.
GameUnresolvedInverted(disputeGameResolvedAt) == disputeGameResolvedAt # 0

\* `if disputeGameResolvedAt == 0`
GameUnresolved(disputeGameResolvedAt) == disputeGameResolvedAt = 0

\* Mutant: `&&` for `||`, the gate opens when one of the two delays has elapsed.
GateOpenEither(provenTimestamp, proofMaturityDelaySeconds, disputeGameResolvedAt, finalityDelaySeconds, t) ==
    LET proofMaturityTime == Unix(provenTimestamp) + ToDuration(proofMaturityDelaySeconds)
        finalityDelayTime == Unix(disputeGameResolvedAt) + ToDuration(finalityDelaySeconds)
    IN  ~(Sub(proofMaturityTime, Unix(t)) > 0 /\ Sub(finalityDelayTime, Unix(t)) > 0)

\* Mutant: `>= 0` for `> 0`, the gate is still closed at the very second a
\* delay ends.
GateOpenStrict(provenTimestamp, proofMaturityDelaySeconds, disputeGameResolvedAt, finalityDelaySeconds, t) ==
    LET proofMaturityTime == Unix(provenTimestamp) + ToDuration(proofMaturityDelaySeconds)
        finalityDelayTime == Unix(disputeGameResolvedAt) + ToDuration(finalityDelaySeconds)
    IN  ~(Sub(proofMaturityTime, Unix(t)) >= 0 \/ Sub(finalityDelayTime, Unix(t)) >= 0)

\* Whether the finalization gate is open at time t: neither
\* time.Until(proofMaturityTime) nor time.Until(finalityDelayTime) is positive.
GateOpen(provenTimestamp, proofMaturityDelaySeconds, disputeGameResolvedAt, finalityDelaySeconds, t) ==
    LET proofMaturityTime == Unix(provenTimestamp) + ToDuration(proofMaturityDelaySeconds)
        finalityDelayTime == Unix(disputeGameResolvedAt) + ToDuration(finalityDelaySeconds)
        untilProofMaturityTime == Sub(proofMaturityTime, Unix(t))
        untilFinalityDelayTime == Sub(finalityDelayTime, Unix(t))
    IN  ~(untilProofMaturityTime > 0 \/ untilFinalityDelayTime > 0)

\* Mutant: the error of the dry run is ignored.
IsErrorIgnored(err) == FALSE

\* `if err != nil` after optimismPortal.CheckWithdrawal
IsError(err) == err # "nil"

\* Keys, clients (ConnectClient waits for both chains), addresses, the
\* withdrawal's receipt and its MessagePassed event.
FinalizeStart(p) ==
    /\ Running(p) /\ inv[p].cmd = "finalize"
    /\ inv[p].pc = "start"
    /\ Goto(p, "ProvenWithdrawals")
    /\ UNCHANGED <<now, conf, chain, tx, active, lister, listed, waiter, run, calc>>

\* optimismPortal.ProvenWithdrawals(hash, account); a zero timestamp is an error.
FinalizeProvenWithdrawals(p) ==
    /\ Running(p) /\ inv[p].cmd = "finalize"
    /\ inv[p].pc = "ProvenWithdrawals"
    /\ LET proven == chain.proven
           read == [inv[p] EXCEPT !.provenTimestamp = proven.Timestamp,
                                  !.reads = @ \cup {"ProvenWithdrawals"}]
       IN  IF NotProven(proven.Timestamp)
           THEN inv' = [inv EXCEPT ![p] =
                   [read EXCEPT !.pc = "done", !.ret = "error",
                       !.msg = "withdrawal has not been previously proven"]]
           ELSE inv' = [inv EXCEPT ![p] = [read EXCEPT !.pc = "MaxClockDuration"]]
    /\ UNCHANGED <<now, conf, chain, tx, active, lister, listed, waiter, run, calc>>

\* permissionedDisputeGame.MaxClockDuration()
FinalizeMaxClockDuration(p) ==
    /\ Running(p) /\ inv[p].cmd = "finalize"
    /\ inv[p].pc = "MaxClockDuration"
    /\ inv' = [inv EXCEPT ![p].pc = "ResolvedSubgames",
                          ![p].maxClockDuration = conf.maxClockDuration]
    /\ UNCHANGED <<now, conf, chain, tx, active, lister, listed, waiter, run, calc>>

\* permissionedDisputeGame.ResolvedSubgames(0) and the branch on it.
FinalizeResolvedSubgames(p) ==
    /\ Running(p) /\ inv[p].cmd = "finalize"
    /\ inv[p].pc = "ResolvedSubgames"
    /\ LET isClaimResolved == chain.resolvedSubgames
       IN  inv' = [inv EXCEPT ![p].isClaimResolved = isClaimResolved,
                       ![p].reads = @ \cup {"ResolvedSubgames"},
                       ![p].pc = IF SubgameUnresolved(isClaimResolved)
                                 THEN "GetChallengerDuration"
                                 ELSE "ResolvedAt"]
    /\ UNCHANGED <<now, conf, chain, tx, active, lister, listed, waiter, run, calc>>

\* permissionedDisputeGame.GetChallengerDuration(0): while the challenge period
\* is open the command returns nil, otherwise it submits ResolveClaim.
FinalizeGetChallengerDuration(p) ==
    /\ Running(p) /\ inv[p].cmd = "finalize"
    /\ inv[p].pc = "GetChallengerDuration"
    /\ LET read == [inv[p] EXCEPT !.challengerDuration = GetChallengerDuration(now),
                                  !.reads = @ \cup {"GetChallengerDuration"}]
       IN  IF ChallengePeriodOpen(read.challengerDuration, read.maxClockDuration)
           THEN inv' = [inv EXCEPT ![p] =
                   [read EXCEPT !.pc = "done", !.ret = "nil",
                       !.msg = "challenger duration period has not passed"]]
           ELSE inv' = [inv EXCEPT ![p] =
                   [read EXCEPT !.pc = "EstimateGas",
                       !.attempts = Append(@, ResolveClaimTx)]]
    /\ UNCHANGED <<now, conf, chain, tx, active, lister, listed, waiter, run, calc>>

\* permissionedDisputeGame.ResolvedAt(): an unresolved game gets Resolve
\* submitted; a resolved one has its Status read and the command goes on.
FinalizeResolvedAt(p) ==
    /\ Running(p) /\ inv[p].cmd = "finalize"
    /\ inv[p].pc = "ResolvedAt"
    /\ LET read == [inv[p] EXCEPT !.disputeGameResolvedAt = chain.resolvedAt,
                                  !.reads = @ \cup {"ResolvedAt"}]
       IN  IF GameUnresolved(read.disputeGameResolvedAt)
           THEN inv' = [inv EXCEPT ![p] =
                   [read EXCEPT !.pc = "EstimateGas",
                       !.attempts = Append(@, ResolveTx)]]
           ELSE inv' = [inv EXCEPT ![p] = [read EXCEPT !.pc = "Gate"]]
    /\ UNCHANGED <<now, conf, chain, tx, active, lister, listed, waiter, run, calc>>

\* The portal's two delays are read and compared with the clock; with the
\* gate closed the command returns nil.
FinalizeGate(p) ==
    /\ Running(p) /\ inv[p].cmd = "finalize"
    /\ inv[p].pc = "Gate"
    /\ IF GateOpen(inv[p].provenTimestamp, conf.proofMaturityDelaySeconds,
                   inv[p].disputeGameResolvedAt, conf.finalityDelaySeconds, now)
       THEN inv' = [inv EXCEPT ![p].pc = "FinalizedWithdrawals",
                               ![p].gate = "open", ![p].gateNow = now]
       ELSE inv' = [inv EXCEPT ![p].pc = "done", ![p].ret = "nil",
                       ![p].msg = "proof has not matured or finality period has not passed",
                       ![p].gate = "closed", ![p].gateNow = now]
    /\ UNCHANGED <<now, conf, chain, tx, active, lister, listed, waiter, run, calc>>

\* Mutant: the finalized flag is read and not acted upon.
FinalizeFinalizedWithdrawalsIgnored(p) ==
    /\ Running(p) /\ inv[p].cmd = "finalize"
    /\ inv[p].pc = "FinalizedWithdrawals"
    /\ inv' = [inv EXCEPT ![p].withdrawalFinalized = chain.finalized,
                          ![p].reads = @ \cup {"FinalizedWithdrawals"},
                          ![p].pc = "CheckWithdrawal"]
    /\ UNCHANGED <<now, conf, chain, tx, active, lister, listed, waiter, run, calc>>

\* optimismPortal.FinalizedWithdrawals(hash): a finalized withdrawal ends the
\* command with nil.
FinalizeFinalizedWithdrawals(p) ==
    /\ Running(p) /\ inv[p].cmd = "finalize"
    /\ inv[p].pc = "FinalizedWithdrawals"
    /\ LET read == [inv[p] EXCEPT !.withdrawalFinalized = chain.finalized,
                                  !.reads = @ \cup {"FinalizedWithdrawals"}]
       IN  IF read.withdrawalFinalized
           THEN inv' = [inv EXCEPT ![p] =
                   [read EXCEPT !.pc = "done", !.ret = "nil",
                       !.msg = "withdrawal proof has already been finalized"]]
           ELSE inv' = [inv EXCEPT ![p] = [read EXCEPT !.pc = "CheckWithdrawal"]]
    /\ UNCHANGED <<now, conf, chain, tx, active, lister, listed, waiter, run, calc>>

\* optimismPortal.CheckWithdrawal(hash, account): the dry run fails when the
\* finalization would revert, and may fail for any other reason.
FinalizeCheckWithdrawal(p) ==
    /\ Running(p) /\ inv[p].cmd = "finalize"
    /\ inv[p].pc = "CheckWithdrawal"
    /\ \E err \in IF Succeeds(FinalizeTx, chain, now) THEN {"nil", "error"} ELSE {"error"} :
          LET read == [inv[p] EXCEPT !.checkErr = err,
                                     !.reads = @ \cup {"CheckWithdrawal"}]
          IN  IF IsError(err)
              THEN inv' = [inv EXCEPT ![p] =
                      [read EXCEPT !.pc = "done", !.ret = "error",
                          !.msg = "call to OptimismPortal.CheckWithdrawal failed"]]
              ELSE inv' = [inv EXCEPT ![p] =
                      [read EXCEPT !.pc = "ProveWithdrawalParametersFaultProofs"]]
    /\ UNCHANGED <<now, conf, chain, tx, active, lister, listed, waiter, run, calc>>

\* withdrawals.ProveWithdrawalParametersFaultProofs, then the finalization is
\* submitted.
FinalizeParameters(p) ==
    /\ Running(p) /\ inv[p].cmd = "finalize"
    /\ inv[p].pc = "ProveWithdrawalParametersFaultProofs"
    /\ Submit(p, FinalizeTx)
    /\ UNCHANGED <<now, conf, chain, tx, active, lister, listed, waiter, run, calc>>

\* l1Client.BalanceAt after the finalization, and the success report.
FinalizeBalanceAt(p) ==
    /\ Running(p) /\ inv[p].cmd = "finalize"
    /\ inv[p].pc = "BalanceAt"
    /\ Return(p, "nil", "successfully finalized withdrawal transaction")
    /\ UNCHANGED <<now, conf, chain, tx, active, lister, listed, waiter, run, calc>>

\* --------------------------------------------------- the prove command
\* Mutant: `<=` for `<`, a game at the withdrawal's own block is rejected.
NotYetProposedInclusive(gameL2BlockNumber, blockNumber) == gameL2BlockNumber <= blockNumber

\* Whether the prove command rejects the withdrawal: the latest game's block
\* is below the withdrawal's.
NotYetProposed(gameL2BlockNumber, blockNumber) == gameL2BlockNumber < blockNumber

\* Keys, clients, addresses, the withdrawal's receipt.
ProveStart(p) ==
    /\ Running(p) /\ inv[p].cmd = "prove"
    /\ inv[p].pc = "start"
    /\ Goto(p, "FindLatestGame")
    /\ UNCHANGED <<now, conf, chain, tx, active, lister, listed, waiter, run, calc>>

\* withdrawals.FindLatestGame and the comparison with the withdrawal's block.
ProveFindLatestGame(p) ==
    /\ Running(p) /\ inv[p].cmd = "prove"
    /\ inv[p].pc = "FindLatestGame"
    /\ IF chain.latestGame = NoGame
       THEN Return(p, "error", "failed to find latest game")
       ELSE IF NotYetProposed(chain.latestGame, conf.wdBlock)
       THEN inv' = [inv EXCEPT ![p].pc = "done", ![p].ret = "error",
                       ![p].msg = "game for this withdrawal has not been proposed yet",
                       ![p].reads = @ \cup {"FindLatestGame"},
                       ![p].gameL2BlockNumber = chain.latestGame]
       ELSE inv' = [inv EXCEPT ![p].pc = "ProveWithdrawalParametersFaultProofs",
                               ![p].reads = @ \cup {"FindLatestGame"},
                               ![p].gameL2BlockNumber = chain.latestGame]
    /\ UNCHANGED <<now, conf, chain, tx, active, lister, listed, waiter, run, calc>>

\* withdrawals.ProveWithdrawalParametersFaultProofs, then the proof is submitted.
ProveParameters(p) ==
    /\ Running(p) /\ inv[p].cmd = "prove"
    /\ inv[p].pc = "ProveWithdrawalParametersFaultProofs"
    /\ Submit(p, ProveTx)
    /\ UNCHANGED <<now, conf, chain, tx, active, lister, listed, waiter, run, calc>>

\* ---------------------------------------------- the init command
\* Keys, clients, balance, the L2 bridge's bindings; then
\* l2StandardBridge.BridgeETHTo goes to the submitter.
InitStart(p) ==
    /\ Running(p) /\ inv[p].cmd = "init"
    /\ inv[p].pc = "start"
    /\ Submit(p, BridgeETHToTx)
    /\ UNCHANGED <<now, conf, chain, tx, active, lister, listed, waiter, run, calc>>

\* -------------------------------------------- the deposit command
\* Keys, clients, balances, the deposit contracts; then
\* L1StandardBridge.DepositETHTo goes to the submitter.
DepositStart(p) ==
    /\ Running(p) /\ inv[p].cmd = "deposit"
    /\ inv[p].pc = "start"
    /\ Submit(p, DepositETHToTx)
    /\ UNCHANGED <<now, conf, chain, tx, active, lister, listed, waiter, run, calc>>

\* Mutant: the errors of the event search and of the derivation are dropped.
DepositFindLogUnchecked(p) ==
    /\ Running(p) /\ inv[p].cmd = "deposit"
    /\ inv[p].pc = "FindLog"
    /\ \E found \in BOOLEAN :
          inv' = [inv EXCEPT ![p].pc = "DepositReceipt",
                             ![p].reads = @ \cup (IF found THEN {"TransactionDeposited"}
                                                           ELSE {})]
    /\ UNCHANGED <<now, conf, chain, tx, active, lister, listed, waiter, run, calc>>

\* receipts.FindLog for the TransactionDeposited event in the logs of the L1
\* receipt, then derive.UnmarshalDepositLogEvent: the receipt may hold no
\* such event and the event may not decode, either error is returned.
DepositFindLog(p) ==
    /\ Running(p) /\ inv[p].cmd = "deposit"
    /\ inv[p].pc = "FindLog"
    /\ \E outcome \in {"found", "missing", "undecodable"} :
          CASE outcome = "found" ->
                  inv' = [inv EXCEPT ![p].pc = "DepositReceipt",
                                     ![p].reads = @ \cup {"TransactionDeposited"}]
            [] outcome = "missing" ->
                  Return(p, "error", "could not parse OptimismPortal.TransactionDeposited event")
            [] OTHER ->
                  Return(p, "error", "encountered error deriving the deposit transaction")
    /\ UNCHANGED <<now, conf, chain, tx, active, lister, listed, waiter, run, calc>>

\* The second wait of deposit: wait.ForReceiptOK on L2 for the deposit
\* transaction derived from the TransactionDeposited event. L2 includes it
\* with either status, or the wait fails; the command sends nothing more.
\* After a successful receipt the balances are read unchecked and the
\* command returns nil.
DepositReceipt(p) ==
    /\ Running(p) /\ inv[p].cmd = "deposit"
    /\ inv[p].pc = "DepositReceipt"
    /\ \E status \in {"ok", "revert", "failed"} :
          LET waited == [inv[p] EXCEPT !.depositStatus = status, !.pc = "done"]
          IN  CASE status = "ok" ->
                      inv' = [inv EXCEPT ![p] =
                                [waited EXCEPT !.ret = "nil", !.msg = "successfully executed"]]
                [] status = "revert" ->
                      inv' = [inv EXCEPT ![p] =
                                [waited EXCEPT !.ret = "error",
                                               !.msg = "failure in deposit execution"]]
                [] OTHER ->
                      inv' = [inv EXCEPT ![p] =
                                [waited EXCEPT !.ret = "error",
                                    !.msg = "found error waiting for deposit receipt"]]
    /\ UNCHANGED <<now, conf, chain, tx, active, lister, listed, waiter, run, calc>>

\* --------------------------------------------------- the list commands
\* ListCommand (cmd/withdraw/list.go) and the earlier list, which filters on
\* MessagePassed and knows four statuses.
Variants == {"ListCommand", "list"}

\* WithdrawalStatus, in the order of its iota.
Statuses == <<"Initialized", "Provable", "Proven", "ClaimResolved", "GameResolved", "Finalized">>

\* The position of a status in the enumeration; -1 for no status.
Rank(status) ==
    IF \E i \in 1..Len(Statuses) : Statuses[i] = status
    THEN (CHOOSE i \in 1..Len(Statuses) : Statuses[i] = status) - 1
    ELSE 0 - 1

\* Mutant: the comparison is turned around.
ProvableFlipped(gameL2BlockNumber, blockNumber) == gameL2BlockNumber <= blockNumber

\* ListCommand: `if gameL2BlockNumber.Uint64() >= receipt.BlockNumber.Uint64()`
Provable(gameL2BlockNumber, blockNumber) == gameL2BlockNumber >= blockNumber

\* list: `if gameL2BlockNumber.Uint64() > block.Number().Uint64()`
ProvableLegacy(gameL2BlockNumber, blockNumber) == gameL2BlockNumber > blockNumber

\* Mutant: the proof record's game address is not looked at.
HasGameAny(DisputeGameProxy) == TRUE

\* `if proven.DisputeGameProxy != common.BytesToAddress([]byte{0})`
HasGame(DisputeGameProxy) == DisputeGameProxy # NullAddress

\* Mutant: the branch on isClaimResolved is inverted.
IsClaimResolvedInverted(isClaimResolved) == ~isClaimResolved

\* `if isClaimResolved { status = ClaimResolved }`
IsClaimResolved(isClaimResolved) == isClaimResolved

NewListing(n, variant) ==
    [ variant |-> variant, pc |-> "start", n |-> n, ret |-> "none",
      gameL2BlockNumber |-> NoGame, status |-> "none", msg |-> "",
      reads |-> {} ]

NotListed == [last |-> "none", best |-> "none", gameL2BlockNumber |-> NoGame]

\* The caller runs a list command (again).
ListInvoke(variant) ==
    /\ lister.pc \in {"idle", "done"}
    /\ lister.n < MaxListCalls
    /\ lister' = NewListing(lister.n + 1, variant)
    /\ UNCHANGED <<now, conf, chain, inv, tx, active, listed, waiter, run, calc>>

\* The withdrawal is logged with its status and the command returns nil,
\* having made the L1 reads named: the status joins what this command has
\* returned so far.
ListLog(status, reads) ==
    /\ lister' = [lister EXCEPT !.pc = "done", !.ret = "nil", !.status = status,
                                !.reads = @ \cup reads]
    /\ listed' = [listed EXCEPT ![lister.variant] =
                    [ last |-> status,
                      best |-> IF Rank(@.last) > Rank(@.best) THEN @.last ELSE @.best,
                      gameL2BlockNumber |-> lister.gameL2BlockNumber ]]

\* Mutant: the command resolves the claim of the game it is about to read.
ListStartResolving ==
    /\ lister.pc = "start"
    /\ lister' = [lister EXCEPT !.pc = "FindLatestGame"]
    /\ chain' = [chain EXCEPT !.resolvedSubgames = TRUE]
    /\ UNCHANGED <<now, conf, inv, tx, active, listed, waiter, run, calc>>

\* Clients, addresses, contract bindings.
ListStart ==
    /\ lister.pc = "start"
    /\ lister' = [lister EXCEPT !.pc = "FindLatestGame"]
    /\ UNCHANGED <<now, conf, chain, inv, tx, active, listed, waiter, run, calc>>

\* withdrawals.FindLatestGame, which fails when the factory has no game.
ListFindLatestGame ==
    /\ lister.pc = "FindLatestGame"
    /\ IF chain.latestGame = NoGame
       THEN lister' = [lister EXCEPT !.pc = "done", !.ret = "error",
                                     !.msg = "failed to find latest game"]
       ELSE lister' = [lister EXCEPT !.pc = "TransactionReceipt",
                                     !.gameL2BlockNumber = chain.latestGame]
    /\ UNCHANGED <<now, conf, chain, inv, tx, active, listed, waiter, run, calc>>

\* The withdrawal's event is iterated: its block is fetched and compared with
\* the latest game's.
ListBlock ==
    /\ lister.pc = "TransactionReceipt"
    /\ LET provable == IF lister.variant = "ListCommand"
                       THEN Provable(lister.gameL2BlockNumber, conf.wdBlock)
                       ELSE ProvableLegacy(lister.gameL2BlockNumber, conf.wdBlock)
       IN  IF provable
           THEN /\ lister' = [lister EXCEPT !.pc = "ProvenWithdrawals", !.status = "Provable"]
                /\ UNCHANGED listed
           ELSE ListLog("Initialized", {})
    /\ UNCHANGED <<now, conf, chain, inv, tx, active, waiter, run, calc>>

\* optimismPortal.ProvenWithdrawals for a provable withdrawal.
ListProvenWithdrawals ==
    /\ lister.pc = "ProvenWithdrawals"
    /\ IF HasGame(chain.proven.DisputeGameProxy)
       THEN IF lister.variant = "ListCommand"
            THEN /\ lister' = [lister EXCEPT !.pc = "ResolvedSubgames", !.status = "Proven",
                                             !.reads = @ \cup {"ProvenWithdrawals"}]
                 /\ UNCHANGED listed
            ELSE ListLog("Proven", {"ProvenWithdrawals"})
       ELSE ListLog("Provable", {"ProvenWithdrawals"})
    /\ UNCHANGED <<now, conf, chain, inv, tx, active, waiter, run, calc>>

\* ListCommand reads the proven game: CreatedAt, Status, MaxClockDuration,
\* GetChallengerDuration, ResolvedSubgames.
ListResolvedSubgames ==
    /\ lister.pc = "ResolvedSubgames"
    /\ LET isClaimResolved == chain.resolvedSubgames
       IN  ListLog(IF IsClaimResolved(isClaimResolved) THEN "ClaimResolved" ELSE "Proven",
                   {"ResolvedSubgames"})
    /\ UNCHANGED <<now, conf, chain, inv, tx, active, waiter, run, calc>>

\* Any RPC of a list command may fail: the command returns the error.
ListRpcFail ==
    /\ lister.pc \in {"start", "FindLatestGame", "TransactionReceipt",
                      "ProvenWithdrawals", "ResolvedSubgames"}
    /\ lister' = [lister EXCEPT !.pc = "done", !.ret = "error", !.msg = "rpc"]
    /\ UNCHANGED <<now, conf, chain, inv, tx, active, listed, waiter, run, calc>>

\* ------------------------------------------------ WaitForChainsStart
\* The clients a caller can hold; a list may name one of them twice.
Endpoints == {"l1", "l2"}

\* clients []*ethclient.Client of at most MaxClients entries.
ClientLists == UNION {[1..n -> Endpoints] : n \in 0..MaxClients}

\* The call as it enters its loop: readyClients := make(map...), empty.
\* heads: the block number each endpoint would report; expired: ctx is done;
\* i: the position of the sweep in clients; polled, err: the client of the
\* HeaderByNumber call of the latest iteration of the range ("none" when the
\* iteration made no call) and whether that call failed; answers: the block
\* numbers each endpoint has answered to the polls of this call.
NewWait(clients) ==
    [ clients |-> clients, heads |-> [c \in Endpoints |-> 0],
      readyClients |-> {}, i |-> 0, pc |-> "select", ret |-> "none",
      expired |-> FALSE, polled |-> "none", err |-> FALSE,
      answers |-> [c \in Endpoints |-> {}] ]

NotWaiting == [NewWait(<<>>) EXCEPT !.pc = "idle"]

\* `if len(readyClients) == len(clients)`: the map holds one entry per
\* distinct client that has reported block production.
AllReady(readyClients, clients) == Cardinality(readyClients) = Len(clients)

\* A head at the genesis block counts as block production.
ProducesBlocksGenesis(number) == number >= 0

\* `if header.Number.Uint64() > 0`
ProducesBlocks(number) == number > 0

\* A client is polled on every tick, ready or not.
IsReadyNever(readyClients, client) == FALSE

\* `if readyClients[client] { continue }`
IsReady(readyClients, client) == client \in readyClients

\* A failed HeaderByNumber ends the call with an error.
HeaderFetchedAborting(w, client, err, number) ==
    IF err
    THEN [w EXCEPT !.pc = "done", !.ret = "error", !.polled = client,
                   !.err = TRUE]
    ELSE [w EXCEPT !.i = @ + 1, !.polled = client, !.err = FALSE,
                   !.answers[client] = @ \cup {number},
                   !.readyClients = IF ProducesBlocks(number)
                                    THEN @ \cup {client} ELSE @]

\* The rest of the iteration after `header, err := client.HeaderByNumber`:
\* on an error, log and `continue`; else mark the client ready when its head
\* is above zero.
HeaderFetched(w, client, err, number) ==
    IF err
    THEN [w EXCEPT !.i = @ + 1, !.polled = client, !.err = TRUE]
    ELSE [w EXCEPT !.i = @ + 1, !.polled = client, !.err = FALSE,
                   !.answers[client] = @ \cup {number},
                   !.readyClients = IF ProducesBlocks(number)
                                    THEN @ \cup {client} ELSE @]

\* An endpoint's chain produces a block.
HeadAdvances(c) ==
    /\ waiter.pc \in {"select", "sweep"}
    /\ waiter.heads[c] < MaxHead
    /\ waiter' = [waiter EXCEPT !.heads[c] = @ + 1]
    /\ UNCHANGED <<now, conf, chain, inv, tx, active, lister, listed, run, calc>>

\* An endpoint is restarted on a fresh chain: its head is the genesis block
\* again.
HeadResets(c) ==
    /\ waiter.pc \in {"select", "sweep"}
    /\ waiter.heads[c] > 0
    /\ waiter' = [waiter EXCEPT !.heads[c] = 0]
    /\ UNCHANGED <<now, conf, chain, inv, tx, active, lister, listed, run, calc>>

\* The deadline of the context passes.
Deadline ==
    /\ waiter.pc \in {"select", "sweep"}
    /\ ~waiter.expired
    /\ waiter' = [waiter EXCEPT !.expired = TRUE]
    /\ UNCHANGED <<now, conf, chain, inv, tx, active, lister, listed, run, calc>>

\* select, `case <-ctx.Done()`: the timeout error is returned.
WaitDone ==
    /\ waiter.pc = "select"
    /\ waiter.expired
    /\ waiter' = [waiter EXCEPT !.pc = "done", !.ret = "timeout"]
    /\ UNCHANGED <<now, conf, chain, inv, tx, active, lister, listed, run, calc>>

\* select, `case <-ticker.C`: a sweep over clients begins. The select takes
\* either case when both are ready.
WaitTick ==
    /\ waiter.pc = "select"
    /\ waiter' = [waiter EXCEPT !.pc = "sweep", !.i = 1]
    /\ UNCHANGED <<now, conf, chain, inv, tx, active, lister, listed, run, calc>>

\* One iteration of `for _, client := range clients`: a client already ready
\* is skipped; HeaderByNumber fails (always so once ctx is done) and the
\* client is passed over, or it answers and a head above zero marks the
\* client ready.
WaitPoll ==
    /\ waiter.pc = "sweep"
    /\ waiter.i <= Len(waiter.clients)
    /\ LET client == waiter.clients[waiter.i]
       IN  IF IsReady(waiter.readyClients, client)
           THEN waiter' = [waiter EXCEPT !.i = @ + 1, !.polled = "none",
                                         !.err = FALSE]
           ELSE \E err \in IF waiter.expired THEN {TRUE} ELSE {TRUE, FALSE} :
                  waiter' = HeaderFetched(waiter, client, err,
                                          waiter.heads[client])
    /\ UNCHANGED <<now, conf, chain, inv, tx, active, lister, listed, run, calc>>

\* After the sweep: return nil when all clients are ready, else select again.
WaitSweepEnd ==
    /\ waiter.pc = "sweep"
    /\ waiter.i > Len(waiter.clients)
    /\ IF AllReady(waiter.readyClients, waiter.clients)
       THEN waiter' = [waiter EXCEPT !.pc = "done", !.ret = "nil"]
       ELSE waiter' = [waiter EXCEPT !.pc = "select", !.i = 0]
    /\ UNCHANGED <<now, conf, chain, inv, tx, active, lister, listed, run, calc>>

\* ------------------------------------- entry of the commands, send
\* Strings are sequences of characters. The addresses and amounts a caller
\* can pass, each with what it is to the caller: a well-formed non-zero
\* address, the zero address or a malformed one; a decimal within the
\* unsigned range or not.
AddressInputs ==
    { [text |-> <<"0", "x", "a", "b">>, kind |-> "valid"],
      [text |-> <<" ", "0", "X", "C", "D">>, kind |-> "valid"],
      [text |-> <<"0", "x", "0", "0">>, kind |-> "zero"],
      [text |-> <<"0", "x", "a">>, kind |-> "malformed"],
      [text |-> <<"0", "x", "a", "g">>, kind |-> "malformed"] }

AmountInputs ==
    { [text |-> <<"7">>, valid |-> TRUE],
      [text |-> <<"0", "1", "5">>, valid |-> TRUE],
      [text |-> <<"1", "6">>, valid |-> FALSE],
      [text |-> <<"-", "1">>, valid |-> FALSE],
      [text |-> <<>>, valid |-> FALSE] }

\* common.AddressLength, in bytes (20 in the program).
AddressLength == 1

\* The width of uint256 (256 in the program).
UintBits == 4

Digits == <<"0", "1", "2", "3", "4", "5", "6", "7", "8", "9">>

IsDigit(ch) == \E k \in 1..Len(Digits) : Digits[k] = ch

\* strings.ToLower on the characters that occur.
ToLower(s) ==
    LET LowerChar(ch) ==
            CASE ch = "A" -> "a" [] ch = "B" -> "b" [] ch = "C" -> "c"
              [] ch = "D" -> "d" [] ch = "E" -> "e" [] ch = "F" -> "f"
              [] ch = "X" -> "x" [] OTHER -> ch
    IN  [k \in 1..Len(s) |-> LowerChar(s[k])]

\* strings.TrimSpace
RECURSIVE TrimSpace(_)
TrimSpace(s) ==
    IF s = <<>> THEN s
    ELSE IF Head(s) = " " THEN TrimSpace(Tail(s))
    ELSE IF s[Len(s)] = " " THEN TrimSpace(SubSeq(s, 1, Len(s) - 1))
    ELSE s

\* The string without a leading 0x or 0X.
Without0x(s) ==
    IF Len(s) >= 2 /\ s[1] = "0" /\ s[2] \in {"x", "X"}
    THEN SubSeq(s, 3, Len(s)) ELSE s

\* common.IsHexAddress: 2 * AddressLength hex characters after the prefix.
IsHexAddress(s) ==
    LET hex == Without0x(s)
    IN  /\ Len(hex) = 2 * AddressLength
        /\ \A k \in 1..Len(hex) :
               \/ IsDigit(hex[k])
               \/ hex[k] \in {"a", "b", "c", "d", "e", "f"}
               \/ hex[k] \in {"A", "B", "C", "D", "E", "F"}

\* common.HexToAddress of a hex address: its bytes, written in lower case.
HexToAddress(s) == ToLower(Without0x(s))

ZeroAddress == [k \in 1..(2 * AddressLength) |-> "0"]

\* The zero address passes.
SafeParseAddressAllowingZero(addressHex) ==
    LET trimmed == ToLower(TrimSpace(addressHex))
    IN  IF ~IsHexAddress(trimmed)
        THEN [address |-> ZeroAddress, err |-> "invalid Ethereum address"]
        ELSE [address |-> HexToAddress(trimmed), err |-> "nil"]

SafeParseAddress(addressHex) ==
    LET trimmed == ToLower(TrimSpace(addressHex))
    IN  IF ~IsHexAddress(trimmed)
        THEN [address |-> ZeroAddress, err |-> "invalid Ethereum address"]
        ELSE IF HexToAddress(trimmed) = ZeroAddress
        THEN [address |-> ZeroAddress, err |-> "zero address is not allowed"]
        ELSE [address |-> HexToAddress(trimmed), err |-> "nil"]

RECURSIVE DecimalValue(_)
DecimalValue(s) ==
    LET DigitValue(ch) == (CHOOSE k \in 1..Len(Digits) : Digits[k] = ch) - 1
    IN  IF s = <<>> THEN 0
        ELSE 10 * DecimalValue(SubSeq(s, 1, Len(s) - 1))
             + DigitValue(s[Len(s)])

\* uint256.FromDecimal, then ToBig: a non-empty string of decimal digits
\* whose value fits the unsigned width.
ParseUint256BigInt(value) ==
    IF value = <<>> \/ \E k \in 1..Len(value) : ~IsDigit(value[k])
    THEN [value |-> 0, err |-> "could not parse value as valid uint256"]
    ELSE IF DecimalValue(value) > 2 ^ UintBits - 1
    THEN [value |-> 0, err |-> "could not parse value as valid uint256"]
    ELSE [value |-> DecimalValue(value), err |-> "nil"]

\* Each command as the operations of its Action in the order of its source,
\* from its entry to its first transaction (the list commands: to the event
\* filter their loop ranges over). "list" and "init" are the commands of the
\* package in internal/utils.go, InitCommand2 the second InitCommand of
\* prove.go. ConnectClient: dial, wait for the chain to start, fetch the
\* chain id; NewBridger and NewDepositContracts: up to the addresses of the
\* contracts.
Programs ==
    LET ParseAmountOp(arg) == [op |-> "ParseUint256BigInt", arg |-> arg]
        ParseAddressOp(arg) == [op |-> "SafeParseAddress", arg |-> arg]
        ParseKeyOp == [op |-> "HexToECDSA"]
        DialOp(c) == [op |-> "Dial", chain |-> c]
        GateOp(cs) == [op |-> "WaitForChainsStart", chains |-> cs]
        ReadOp(c, what) ==
            [op |-> "Read", chain |-> c, what |-> what, checked |-> TRUE]
        UncheckedReadOp(c, what) ==
            [op |-> "Read", chain |-> c, what |-> what, checked |-> FALSE]
        TransactOp(c, kind) ==
            [op |-> "PadGasEstimate", chain |-> c, kind |-> kind]
        SendTxOp(c) == [op |-> "SendTx", chain |-> c]
        ConnectClient(c) == <<DialOp(c), GateOp({c}), ReadOp(c, "ChainID")>>
        NewBridger ==
            <<DialOp("l1"), DialOp("l2"), GateOp({"l1", "l2"}),
              ReadOp("l1", "ChainID"), ReadOp("l2", "ChainID"),
              ParseAddressOp("optimism-portal-address"),
              ParseAddressOp("l1-standard-bridge-address"),
              ParseAddressOp("l2-standard-bridge-address")>>
        NewDepositContracts ==
            <<ParseAddressOp("optimism-portal-address"),
              ParseAddressOp("l1-standard-bridge-address")>>
    IN
        [ ListCommand |->
              ConnectClient("l1") \o ConnectClient("l2") \o
              <<ParseAddressOp("account"),
                ParseAddressOp("dispute-game-factory-address"),
                ParseAddressOp("optimism-portal-address"),
                ReadOp("l1", "GameImpls"),
                ReadOp("l1", "ProofMaturityDelaySeconds"),
                ReadOp("l1", "FindLatestGame"),
                ReadOp("l2", "FilterWithdrawalInitiated")>>,
          list |->
              <<DialOp("l1"), DialOp("l2"),
                ParseAddressOp("account"),
                ParseAddressOp("dispute-game-factory-address"),
                ParseAddressOp("optimism-portal2-address"),
                ReadOp("l1", "FindLatestGame"),
                UncheckedReadOp("l2", "FilterMessagePassed")>>,
          InitCommand |->
              ConnectClient("l2") \o
              <<ParseAmountOp("amount"), ParseKeyOp, ParseAddressOp("recipient"),
                ReadOp("l2", "ChainID"), TransactOp("l2", "BridgeETHTo")>>,
          InitCommand2 |->
              ConnectClient("l2") \o
              <<ParseAmountOp("amount"), ParseKeyOp,
                ReadOp("l2", "ChainID"), TransactOp("l2", "InitiateWithdrawal")>>,
          init |->
              <<DialOp("l2"), ParseAmountOp("value"), ParseKeyOp,
                ReadOp("l2", "BalanceAt"), ReadOp("l2", "ChainID"),
                ReadOp("l2", "CodeAt"), TransactOp("l2", "InitiateWithdrawal")>>,
          ProveCommand |->
              <<ParseKeyOp>> \o ConnectClient("l1") \o ConnectClient("l2") \o
              <<ParseAddressOp("dispute-game-factory-address"),
                ParseAddressOp("optimism-portal-address"),
                ReadOp("l2", "TransactionReceipt"),
                ReadOp("l1", "FindLatestGame"),
                ReadOp("l2", "ProveWithdrawalParametersFaultProofs"),
                TransactOp("l1", "ProveWithdrawalTransaction")>>,
          FinalizeCommand |->
              <<ParseKeyOp>> \o ConnectClient("l1") \o ConnectClient("l2") \o
              <<ReadOp("l1", "BalanceAt"),
                ParseAddressOp("dispute-game-factory-address"),
                ParseAddressOp("optimism-portal-address"),
                ReadOp("l2", "TransactionReceipt"),
                ReadOp("l1", "ProvenWithdrawals"),
                ReadOp("l1", "MaxClockDuration"),
                ReadOp("l1", "ResolvedSubgames"),
                ReadOp("l1", "GetChallengerDuration"),
                TransactOp("l1", "ResolveClaim")>>,
          DepositCommand |->
              <<ParseAmountOp("amount"), ParseKeyOp>> \o
              ConnectClient("l1") \o ConnectClient("l2") \o
              <<ParseAddressOp("recipient"),
                UncheckedReadOp("l1", "BalanceAt"),
                UncheckedReadOp("l2", "BalanceAt")>> \o
              NewDepositContracts \o
              <<TransactOp("l1", "DepositETHTo")>>,
          SendCommand |->
              <<ParseAmountOp("amount"), ParseKeyOp>> \o ConnectClient("l1") \o
              <<ParseAddressOp("recipient"), SendTxOp("l1")>>,
          SendOnReadyCommand |->
              <<ParseAmountOp("value"), DialOp("l1"), ParseKeyOp,
                GateOp({"l1"}), SendTxOp("l1")>>,
          BridgeEthAndFinalizeCommand |->
              <<ParseAmountOp("value"), ParseKeyOp>> \o NewBridger \o
              <<TransactOp("l1", "BridgeETH")>> ]

\* The flags of a command that an operation of the given kind parses.
ArgsOf(cmd, op) ==
    {Programs[cmd][k].arg :
        k \in {j \in 1..Len(Programs[cmd]) : Programs[cmd][j].op = op}}

AddressArgs(cmd) == ArgsOf(cmd, "SafeParseAddress")
AmountArgs(cmd) == ArgsOf(cmd, "ParseUint256BigInt")

\* The command lines of a command: a text for each of its address and
\* amount flags.
CommandLines(cmd) ==
    {args \in [AddressArgs(cmd) \cup AmountArgs(cmd) ->
                   AddressInputs \cup AmountInputs] :
        /\ \A a \in AddressArgs(cmd) : args[a] \in AddressInputs
        /\ \A a \in AmountArgs(cmd) : args[a] \in AmountInputs}

\* A command as its Action is entered. pc: the position in its program;
\* parsed: the values of the flags parsed so far; ready: the chains
\* WaitForChainsStart has returned nil for; accessed: the chains read from or
\* submitted to; submitted: the transactions handed to the chain; sendErr:
\* the error SendTx returned; log: the messages logged.
NewRun(cmd, args) ==
    [ cmd |-> cmd, args |-> args, pc |-> 1, ret |-> "none", msg |-> "",
      parsed |-> <<>>, ready |-> {}, accessed |-> {}, submitted |-> <<>>,
      sendErr |-> "none", log |-> {} ]

NotRunning == [NewRun("none", <<>>) EXCEPT !.pc = 0]

\* The operation the command is at.
Current == Programs[run.cmd][run.pc]

At(op) ==
    /\ run.cmd \in DOMAIN Programs
    /\ run.ret = "none"
    /\ run.pc \in 1..Len(Programs[run.cmd])
    /\ Current.op = op

Proceed(r) == [r EXCEPT !.pc = @ + 1]
Fail(r, msg) == [r EXCEPT !.ret = "error", !.msg = msg]

\* amount, err := ParseUint256BigInt(c.String(..)); if err != nil { return }
RunParseUint256BigInt ==
    /\ At("ParseUint256BigInt")
    /\ LET res == ParseUint256BigInt(run.args[Current.arg].text)
       IN  run' = IF res.err # "nil" THEN Fail(run, res.err)
                  ELSE Proceed([run EXCEPT
                           !.parsed = @ @@ (Current.arg :> res.value)])
    /\ UNCHANGED <<now, conf, chain, inv, tx, active, lister, listed, waiter, calc>>

\* address, err := SafeParseAddress(c.String(..)); if err != nil { return }
RunSafeParseAddress ==
    /\ At("SafeParseAddress")
    /\ LET res == SafeParseAddress(run.args[Current.arg].text)
       IN  run' = IF res.err # "nil" THEN Fail(run, res.err)
                  ELSE Proceed([run EXCEPT
                           !.parsed = @ @@ (Current.arg :> res.address)])
    /\ UNCHANGED <<now, conf, chain, inv, tx, active, lister, listed, waiter, calc>>

\* privateKey, err := crypto.HexToECDSA(c.String("private-key"))
RunHexToECDSA ==
    /\ At("HexToECDSA")
    /\ \E ok \in BOOLEAN :
          run' = IF ok THEN Proceed(run)
                 ELSE Fail(run, "failed to parse private-key")
    /\ UNCHANGED <<now, conf, chain, inv, tx, active, lister, listed, waiter, calc>>

\* client, err := ethclient.Dial(rpcUrl)
RunDial ==
    /\ At("Dial")
    /\ \E ok \in BOOLEAN :
          run' = IF ok THEN Proceed(run) ELSE Fail(run, "could not dial")
    /\ UNCHANGED <<now, conf, chain, inv, tx, active, lister, listed, waiter, calc>>

\* if err := WaitForChainsStart(timeoutCtx, clients); err != nil { return }
Started(r, chains, err) ==
    IF err THEN Fail(r, "client has not started")
    ELSE Proceed([r EXCEPT !.ready = @ \cup chains])

\* WaitForChainsStart returns nil or its timeout error.
RunWaitForChainsStart ==
    /\ At("WaitForChainsStart")
    /\ \E err \in BOOLEAN : run' = Started(run, Current.chains, err)
    /\ UNCHANGED <<now, conf, chain, inv, tx, active, lister, listed, waiter, calc>>

\* A call that reads from a chain; its error, where the code checks it,
\* is returned.
RunRead ==
    /\ At("Read")
    /\ \E ok \in BOOLEAN :
          LET read == [run EXCEPT !.accessed = @ \cup {Current.chain}]
          IN  run' = IF ok \/ ~Current.checked THEN Proceed(read)
                     ELSE Fail(read, Current.what)
    /\ UNCHANGED <<now, conf, chain, inv, tx, active, lister, listed, waiter, calc>>

\* transactions.PadGasEstimate: the estimate, then the transaction is sent;
\* an error of either is returned.
RunPadGasEstimate ==
    /\ At("PadGasEstimate")
    /\ \E outcome \in {"estimate failed", "send failed", "sent"} :
          LET read == [run EXCEPT !.accessed = @ \cup {Current.chain}]
          IN  run' = IF outcome = "sent"
                     THEN Proceed([read EXCEPT !.submitted =
                              Append(@, [chain |-> Current.chain,
                                         kind |-> Current.kind])])
                     ELSE Fail(read, outcome)
    /\ UNCHANGED <<now, conf, chain, inv, tx, active, lister, listed, waiter, calc>>

\* candidate := txmgr.TxCandidate{To: &ZeroAddress, GasLimit: 21000, Value:
\* amount}; _, receipt, err := transactions.SendTx(...); the error is not
\* looked at, receipt.TxHash is logged (a nil receipt: nil pointer
\* dereference) and nil is returned. SendTx can return: whether the
\* transaction reached the chain, whether a receipt is returned, the error.
RunSendTx ==
    /\ At("SendTx")
    /\ \E outcome \in
          { [sent |-> FALSE, receipt |-> FALSE,
             err |-> "failed to send transaction"],
            [sent |-> TRUE, receipt |-> FALSE,
             err |-> "failed to find OK receipt"],
            [sent |-> TRUE, receipt |-> TRUE,
             err |-> "failed to find OK receipt"],
            [sent |-> TRUE, receipt |-> TRUE, err |-> "nil"] } :
          LET candidate == [chain |-> Current.chain, kind |-> "transfer",
                            To |-> ZeroAddress,
                            Value |-> run.parsed[
                                CHOOSE a \in AmountArgs(run.cmd) : TRUE]]
              sent == [run EXCEPT
                          !.accessed = @ \cup {Current.chain},
                          !.sendErr = outcome.err,
                          !.submitted = IF outcome.sent
                                        THEN Append(@, candidate) ELSE @]
          IN  run' = IF outcome.receipt
                     THEN [sent EXCEPT
                              !.log = @ \cup {"successfully sent transaction"},
                              !.ret = "nil"]
                     ELSE [sent EXCEPT !.ret = "panic",
                              !.msg = "nil pointer dereference"]
    /\ UNCHANGED <<now, conf, chain, inv, tx, active, lister, listed, waiter, calc>>

\* ------------------------------------------------- pure functions
\* The widths of a versioned nonce: its lower NonceBits bits are the nonce
\* (240 in the program), the VersionBits bits above them the version (16).
NonceBits == 4
VersionBits == 2

\* big.Int.And of non-negative numbers, bit by bit.
RECURSIVE And(_, _)
And(x, y) ==
    IF x = 0 \/ y = 0 THEN 0
    ELSE 2 * And(x \div 2, y \div 2)
         + (IF x % 2 = 1 /\ y % 2 = 1 THEN 1 ELSE 0)

\* The mask covers the version bits as well.
DecodeVersionedNonceKeepingVersion(nonce) ==
    And(nonce, 2 ^ (NonceBits + VersionBits) - 1)

DecodeVersionedNonce(nonce) ==
    LET mask == 1 * 2 ^ NonceBits - 1
    IN  And(nonce, mask)

\* big.Int.String of a non-negative number.
RECURSIVE String(_)
String(n) ==
    IF n < 10 THEN <<Digits[n + 1]>>
    ELSE String(n \div 10) \o <<Digits[(n % 10) + 1]>>

\* strings.Repeat("0", count)
Zeros(count) == [k \in 1..count |-> "0"]

\* strings.TrimRight(s, "0")
RECURSIVE TrimRightZeros(_)
TrimRightZeros(s) ==
    IF s # <<>> /\ s[Len(s)] = "0"
    THEN TrimRightZeros(SubSeq(s, 1, Len(s) - 1)) ELSE s

\* The remainder is printed as it is, without leading zeros.
PadRemainderNot(remainderStr, baseDecimals) == remainderStr

\* strings.Repeat("0", baseDecimals-len(remainderStr)) + remainderStr
PadRemainder(remainderStr, baseDecimals) ==
    Zeros(baseDecimals - Len(remainderStr)) \o remainderStr

\* FormatBigInt for an amount that is not nil.
FormatBigInt(amount, baseDecimals) ==
    LET negative == amount < 0
        value == IF negative THEN 0 - amount ELSE amount
        divisor == 10 ^ baseDecimals
        intPart == value \div divisor
        remainder == value % divisor
        trimmedDecimal ==
            TrimRightZeros(PadRemainder(String(remainder), baseDecimals))
        result == IF trimmedDecimal # <<>>
                  THEN String(intPart) \o <<".">> \o trimmedDecimal
                  ELSE String(intPart)
    IN  IF remainder = 0
        THEN IF negative THEN <<"-">> \o String(intPart) ELSE String(intPart)
        ELSE IF negative THEN <<"-">> \o result ELSE result

\* The padding factor every call of transactions.PadGasEstimate passes, 1.5,
\* as a fraction.
PaddingNumerator == 3
PaddingDenominator == 2

\* No padding.
PaddedGasLimitNot(gas) == gas

\* transactions.PadGasEstimate: o.GasLimit = uint64(float64(tx.Gas()) * 1.5).
\* The product of an estimate a block can hold is exact in float64; the
\* conversion drops its fraction.
PaddedGasLimit(gas) == (gas * PaddingNumerator) \div PaddingDenominator

\* The inputs of the functions.
MaxAmount == 120
MaxDecimals == 2
MaxGas == 40
MaxCalls == 2

\* For the comparison of the two clock readings: uint64 values (of the
\* model's width) around the points where their product with time.Second
\* leaves the signed and the unsigned range.
CalcInputs ==
    LET uint64s == {0, 1, 2,
                    DurationModulus \div (2 * Second) - 1,
                    DurationModulus \div (2 * Second),
                    DurationModulus \div Second,
                    DurationModulus \div Second + 1,
                    DurationModulus - 1}
    IN  [ DecodeVersionedNonce |->
              [nonce : 0..(2 ^ (NonceBits + VersionBits) - 1)],
          FormatBigInt |->
              [amount : (0 - MaxAmount)..MaxAmount,
               baseDecimals : 0..MaxDecimals],
          PadGasEstimate |->
              [gas : 0..MaxGas \cup {100000}],
          ChallengePeriodOpen |->
              [challengerDuration : uint64s, maxClockDuration : uint64s] ]

\* A function, its arguments and the results of its calls so far.
NewCalc(fn, in) == [fn |-> fn, in |-> in, out |-> <<>>]

NotCalculating == NewCalc("none", <<>>)

CallDecodeVersionedNonce ==
    /\ calc.fn = "DecodeVersionedNonce" /\ Len(calc.out) < MaxCalls
    /\ calc' = [calc EXCEPT !.out = Append(@, DecodeVersionedNonce(calc.in.nonce))]
    /\ UNCHANGED <<now, conf, chain, inv, tx, active, lister, listed, waiter, run>>

CallFormatBigInt ==
    /\ calc.fn = "FormatBigInt" /\ Len(calc.out) < MaxCalls
    /\ calc' = [calc EXCEPT !.out =
                   Append(@, FormatBigInt(calc.in.amount, calc.in.baseDecimals))]
    /\ UNCHANGED <<now, conf, chain, inv, tx, active, lister, listed, waiter, run>>

\* The gas limit of the transaction PadGasEstimate sends for an estimate.
CallPadGasEstimate ==
    /\ calc.fn = "PadGasEstimate" /\ Len(calc.out) < MaxCalls
    /\ calc' = [calc EXCEPT !.out = Append(@, PaddedGasLimit(calc.in.gas))]
    /\ UNCHANGED <<now, conf, chain, inv, tx, active, lister, listed, waiter, run>>

\* `if challengerDuration < maxClockDuration` on the two values read from the
\* game, each converted by time.Duration(x * uint64(time.Second)).
CallChallengePeriodOpen ==
    /\ calc.fn = "ChallengePeriodOpen" /\ Len(calc.out) < MaxCalls
    /\ calc' = [calc EXCEPT !.out =
                   Append(@, ChallengePeriodOpen(calc.in.challengerDuration,
                                                 calc.in.maxClockDuration))]
    /\ UNCHANGED <<now, conf, chain, inv, tx, active, lister, listed, waiter, run>>

\* --------------------------------------------------- specifications
Configurations ==
    [ wdBlock : {WithdrawalBlock},
      createdAt : {0},
      maxClockDuration : 1..MaxClock,
      proofMaturityDelaySeconds : {ProofMaturityDelay},
      finalityDelaySeconds : {FinalityDelay} ]

NewChain(latestGame) ==
    [ latestGame |-> latestGame,
      proven |-> [Timestamp |-> 0, DisputeGameProxy |-> NullAddress],
      resolvedSubgames |-> FALSE,
      resolvedAt |-> 0,
      finalized |-> FALSE,
      claimResolutions |-> 0, gameResolutions |-> 0, finalizations |-> 0 ]

Idle == [NewInvocation(0, "none") EXCEPT !.pc = "idle"]

\* One caller, who runs prove and finalize, beside the other actors.
Init ==
    /\ now = 1
    /\ conf \in Configurations
    /\ chain = NewChain(NoGame)
    /\ inv = [p \in Procs |-> Idle]
    /\ tx = [p \in Procs |-> NoTx]
    /\ active = {"a"}
    /\ lister = [NewListing(0, "none") EXCEPT !.pc = "idle"]
    /\ listed = [v \in Variants |-> NotListed]
    /\ waiter = NotWaiting
    /\ run = NotRunning
    /\ calc = NotCalculating

Environment ==
    \/ Tick
    \/ NewGame
    \/ \E kind \in {ProveTx, ResolveClaimTx, ResolveTx, FinalizeTx} : OtherActor(kind)
    \/ \E p \in Procs : Mine(p)

Submitter(p) ==
    \/ EstimateGas(p)
    \/ SendTransaction(p)
    \/ ForReceiptOK(p)

FinalizeCommand(p) ==
    \/ FinalizeStart(p)
    \/ FinalizeProvenWithdrawals(p)
    \/ FinalizeMaxClockDuration(p)
    \/ FinalizeResolvedSubgames(p)
    \/ FinalizeGetChallengerDuration(p)
    \/ FinalizeResolvedAt(p)
    \/ FinalizeGate(p)
    \/ FinalizeFinalizedWithdrawals(p)
    \/ FinalizeCheckWithdrawal(p)
    \/ FinalizeParameters(p)
    \/ FinalizeBalanceAt(p)

ProveCommand(p) ==
    \/ ProveStart(p)
    \/ ProveFindLatestGame(p)
    \/ ProveParameters(p)

DepositCommand(p) ==
    \/ DepositStart(p)
    \/ DepositFindLog(p)
    \/ DepositReceipt(p)

Next ==
    \/ Environment
    \/ \E p \in Procs :
          \/ \E cmd \in Commands : Invoke(p, cmd)
          \/ RpcFail(p)
          \/ Submitter(p)
          \/ FinalizeCommand(p)
          \/ ProveCommand(p)
          \/ InitStart(p)
          \/ DepositCommand(p)

Spec == Init /\ [][Next]_vars

\* The receipt wait with a receipt to return: the transaction was executed.
ReceiptFound(p) == ForReceiptOK(p) /\ tx[p].status \in {"ok", "revert"}

\* Spec with the progress the code gives: time passes, and the polling loop
\* of wait.ForReceiptOK returns once the transaction has a receipt. Nothing
\* makes the chain execute a transaction, and the commands' context is
\* context.Background(): there is no step that a deadline enables.
SpecWait ==
    /\ Init /\ [][Next]_vars
    /\ WF_vars(Tick)
    /\ \A p \in Procs : WF_vars(ReceiptFound(p))

\* Two independent callers run finalize against the game of a withdrawal
\* that has been proven; nothing but the game's contract orders them. Until
\* the first finalization the behaviours are also those of two callers with
\* two withdrawals that were proven in one block against that game: the
\* commands read nothing else of a withdrawal than its proof record and its
\* finalized flag, and the two records are then equal.
InitRace ==
    /\ now = 1
    /\ conf \in Configurations
    /\ \E resolved \in BOOLEAN :
          chain = [NewChain(WithdrawalBlock) EXCEPT
                      !.proven = [Timestamp |-> 1, DisputeGameProxy |-> GameAddress],
                      !.resolvedSubgames = resolved,
                      !.claimResolutions = IF resolved THEN 1 ELSE 0]
    /\ inv = [p \in Procs |-> Idle]
    /\ tx = [p \in Procs |-> NoTx]
    /\ active = Procs
    /\ lister = [NewListing(0, "none") EXCEPT !.pc = "idle"]
    /\ listed = [v \in Variants |-> NotListed]
    /\ waiter = NotWaiting
    /\ run = NotRunning
    /\ calc = NotCalculating

NextRace ==
    \/ Tick
    \/ \E p \in Procs :
          \/ Mine(p)
          \/ Invoke(p, "finalize")
          \/ RpcFail(p)
          \/ Submitter(p)
          \/ FinalizeCommand(p)

SpecRace == InitRace /\ [][NextRace]_vars

\* The same two callers, one after the other: no step leaves both commands
\* in the middle of an invocation.
SpecSequential ==
    InitRace /\ [][NextRace /\ \E p \in Procs : inv'[p].pc \in {"idle", "done"}]_vars

\* The list commands are run again and again while the chain advances.
InitList ==
    /\ now = 1
    /\ conf \in Configurations
    /\ chain = NewChain(NoGame)
    /\ inv = [p \in Procs |-> Idle]
    /\ tx = [p \in Procs |-> NoTx]
    /\ active = {}
    /\ lister = [NewListing(0, "none") EXCEPT !.pc = "idle"]
    /\ listed = [v \in Variants |-> NotListed]
    /\ waiter = NotWaiting
    /\ run = NotRunning
    /\ calc = NotCalculating

NextList ==
    \/ Tick
    \/ NewGame
    \/ \E kind \in {ProveTx, ResolveClaimTx, ResolveTx, FinalizeTx} : OtherActor(kind)
    \/ \E variant \in Variants : ListInvoke(variant)
    \/ ListStart
    \/ ListFindLatestGame
    \/ ListBlock
    \/ ListProvenWithdrawals
    \/ ListResolvedSubgames
    \/ ListRpcFail

SpecList == InitList /\ [][NextList]_vars

\* What the contracts may answer to the reads of one classification: the
\* latest game (or none), the proof record field by field, the game's flags,
\* the portal's finalized flag.
Snapshots ==
    [ latestGame : NoGame..MaxBlock,
      proven : [Timestamp : {0, 1}, DisputeGameProxy : {NullAddress, GameAddress}],
      resolvedSubgames : BOOLEAN,
      resolvedAt : {0, 1},
      finalized : BOOLEAN,
      claimResolutions : {0}, gameResolutions : {0}, finalizations : {0} ]

\* The list commands are run again and again on one fixed snapshot.
InitClassify ==
    /\ now = 1
    /\ conf \in Configurations
    /\ chain \in Snapshots
    /\ inv = [p \in Procs |-> Idle]
    /\ tx = [p \in Procs |-> NoTx]
    /\ active = {}
    /\ lister = [NewListing(0, "none") EXCEPT !.pc = "idle"]
    /\ listed = [v \in Variants |-> NotListed]
    /\ waiter = NotWaiting
    /\ run = NotRunning
    /\ calc = NotCalculating

NextClassify ==
    \/ \E variant \in Variants : ListInvoke(variant)
    \/ ListStart
    \/ ListFindLatestGame
    \/ ListBlock
    \/ ListProvenWithdrawals
    \/ ListResolvedSubgames
    \/ ListRpcFail

SpecClassify == InitClassify /\ [][NextClassify]_vars

\* The caller runs finalize once more, as often as it takes: the number of
\* invocations is not kept.
Reinvoke(p) ==
    /\ p \in active
    /\ inv[p].pc \in {"idle", "done"}
    /\ inv' = [inv EXCEPT ![p] =
                  [NewInvocation(1, "finalize") EXCEPT
                      !.finalizedAtStart = chain.finalized]]
    /\ tx' = [tx EXCEPT ![p] = NoTx]
    /\ UNCHANGED <<now, conf, chain, active, lister, listed, waiter, run, calc>>

NextLive ==
    \/ Tick
    \/ Mine("a")
    \/ Reinvoke("a")
    \/ RpcFail("a")
    \/ Submitter("a")
    \/ FinalizeCommand("a")

\* One caller runs finalize again and again on a proven withdrawal. The
\* process runs: a command that has a next statement executes it. Neither
\* the passing of time, nor the success of a call, nor the chain's inclusion
\* of a transaction, nor the caller's perseverance is assumed here.
SpecLive ==
    /\ InitRace /\ [][NextLive]_vars
    /\ WF_vars(FinalizeCommand("a") \/ Submitter("a"))

\* One caller runs prove and another runs the list commands on the same
\* withdrawal while the latest anchored game stays what it is.
InitAgree ==
    /\ now = 1
    /\ conf \in Configurations
    /\ chain \in {NewChain(latestGame) : latestGame \in NoGame..MaxBlock}
    /\ inv = [p \in Procs |-> Idle]
    /\ tx = [p \in Procs |-> NoTx]
    /\ active = {"a"}
    /\ lister = [NewListing(0, "none") EXCEPT !.pc = "idle"]
    /\ listed = [v \in Variants |-> NotListed]
    /\ waiter = NotWaiting
    /\ run = NotRunning
    /\ calc = NotCalculating

NextAgree ==
    \/ \E p \in Procs :
          \/ Invoke(p, "prove")
          \/ RpcFail(p)
          \/ ProveCommand(p)
          \/ Submitter(p)
          \/ Mine(p)
    \/ \E variant \in Variants : ListInvoke(variant)
    \/ ListStart
    \/ ListFindLatestGame
    \/ ListBlock
    \/ ListProvenWithdrawals
    \/ ListResolvedSubgames
    \/ ListRpcFail

SpecAgree == InitAgree /\ [][NextAgree]_vars

\* WaitForChainsStart is called with a list of clients.
InitReady ==
    /\ now = 1
    /\ conf \in Configurations
    /\ chain = NewChain(NoGame)
    /\ inv = [p \in Procs |-> Idle]
    /\ tx = [p \in Procs |-> NoTx]
    /\ active = {}
    /\ lister = [NewListing(0, "none") EXCEPT !.pc = "idle"]
    /\ listed = [v \in Variants |-> NotListed]
    /\ \E clients \in ClientLists : waiter = NewWait(clients)
    /\ run = NotRunning
    /\ calc = NotCalculating

NextReady ==
    \/ \E c \in Endpoints : HeadAdvances(c)
    \/ \E c \in Endpoints : HeadResets(c)
    \/ Deadline
    \/ WaitDone
    \/ WaitTick
    \/ WaitPoll
    \/ WaitSweepEnd

SpecReady == InitReady /\ [][NextReady]_vars

\* A command is entered with a command line.
InitEntry ==
    /\ now = 1
    /\ conf \in Configurations
    /\ chain = NewChain(NoGame)
    /\ inv = [p \in Procs |-> Idle]
    /\ tx = [p \in Procs |-> NoTx]
    /\ active = {}
    /\ lister = [NewListing(0, "none") EXCEPT !.pc = "idle"]
    /\ listed = [v \in Variants |-> NotListed]
    /\ waiter = NotWaiting
    /\ \E cmd \in DOMAIN Programs : \E args \in CommandLines(cmd) :
          run = NewRun(cmd, args)
    /\ calc = NotCalculating

NextEntry ==
    \/ RunParseUint256BigInt
    \/ RunSafeParseAddress
    \/ RunHexToECDSA
    \/ RunDial
    \/ RunWaitForChainsStart
    \/ RunRead
    \/ RunPadGasEstimate
    \/ RunSendTx

SpecEntry == InitEntry /\ [][NextEntry]_vars

\* A function is called on arguments, more than once.
InitCalc ==
    /\ now = 1
    /\ conf \in Configurations
    /\ chain = NewChain(NoGame)
    /\ inv = [p \in Procs |-> Idle]
    /\ tx = [p \in Procs |-> NoTx]
    /\ active = {}
    /\ lister = [NewListing(0, "none") EXCEPT !.pc = "idle"]
    /\ listed = [v \in Variants |-> NotListed]
    /\ waiter = NotWaiting
    /\ run = NotRunning
    /\ \E fn \in DOMAIN CalcInputs : \E in \in CalcInputs[fn] :
          calc = NewCalc(fn, in)

NextCalc ==
    \/ CallDecodeVersionedNonce
    \/ CallFormatBigInt
    \/ CallPadGasEstimate
    \/ CallChallengePeriodOpen

SpecCalc == InitCalc /\ [][NextCalc]_vars

\* ------------------------------------------------------------ claims
Attempted(p, kind) == \E i \in 1..Len(inv[p].attempts) : inv[p].attempts[i] = kind

Read(p, what) == what \in inv[p].reads

InfoReturn(p) ==
    /\ inv[p].pc = "done" /\ inv[p].ret = "nil"
    /\ inv[p].attempts = <<>> /\ tx[p] = NoTx

\* Both delays have elapsed at time t for what invocation p has read.
DelaysElapsed(p, t) ==
    /\ t >= inv[p].provenTimestamp + conf.proofMaturityDelaySeconds
    /\ t >= inv[p].disputeGameResolvedAt + conf.finalityDelaySeconds

\* C2: a finalize invocation hands the finalization transaction to the
\* submitter only after it has observed, in this invocation: a proven
\* withdrawal record with non-zero timestamp, the subgame resolved, a non-zero
\* resolvedAt, both delays elapsed, the withdrawal not finalized, and a
\* checkWithdrawal dry run without error. In every other state of the
\* invocation no finalization transaction has been submitted.
C2_FinalizeOnlyAfterAllObserved ==
    \A p \in Procs :
        (inv[p].cmd = "finalize" /\ (Attempted(p, FinalizeTx) \/ tx[p].kind = FinalizeTx)) =>
            /\ Read(p, "ProvenWithdrawals") /\ inv[p].provenTimestamp # 0
            /\ Read(p, "ResolvedSubgames") /\ inv[p].isClaimResolved
            /\ Read(p, "ResolvedAt") /\ inv[p].disputeGameResolvedAt # 0
            /\ inv[p].gate = "open" /\ DelaysElapsed(p, inv[p].gateNow)
            /\ Read(p, "FinalizedWithdrawals") /\ ~inv[p].withdrawalFinalized
            /\ Read(p, "CheckWithdrawal") /\ inv[p].checkErr = "nil"

\* C2 witness: a finalization transaction is in flight, submitted at the very
\* second the proof matured.
C2_Witness ==
    \E p \in Procs :
        /\ tx[p].kind = FinalizeTx /\ tx[p].status = "pending"
        /\ inv[p].gateNow = inv[p].provenTimestamp + conf.proofMaturityDelaySeconds

\* C3: the gate is open exactly when now >= provenTimestamp + proofMaturityDelay
\* and now >= gameResolvedAt + gameFinalityDelay (equality counts as elapsed:
\* closed at 1099, open at 1100 for 1000+100 and 1050+40); with the gate
\* closed the command has submitted nothing and has returned nil.
C3_GateOpenExactlyWhenBothElapsed ==
    /\ ~GateOpen(1000, 100, 1050, 40, 1099)
    /\ GateOpen(1000, 100, 1050, 40, 1100)
    /\ \A p \in Procs :
          inv[p].gate # "none" =>
            /\ (inv[p].gate = "open") <=> DelaysElapsed(p, inv[p].gateNow)
            /\ inv[p].gate = "closed" =>
                  InfoReturn(p) /\ ~Attempted(p, FinalizeTx)

\* C3 witness: the gate was found closed one second before the proof matures,
\* the finality delay having elapsed.
C3_Witness ==
    \E p \in Procs :
        /\ inv[p].gate = "closed"
        /\ inv[p].gateNow + 1 = inv[p].provenTimestamp + conf.proofMaturityDelaySeconds
        /\ inv[p].gateNow >= inv[p].disputeGameResolvedAt + conf.finalityDelaySeconds

\* C4: with the subgame unresolved, the command compares the challenger
\* duration d with the maximum clock duration M, in seconds as read from the
\* game: d < M, it returns nil with nothing submitted; d >= M, it hands
\* exactly one transaction, ResolveClaim, to the submitter, and once that
\* transaction has succeeded the subgame is resolved.
C4_ChallengeWindow ==
    \A p \in Procs :
        (inv[p].cmd = "finalize" /\ Read(p, "GetChallengerDuration")) =>
            /\ inv[p].maxClockDuration = conf.maxClockDuration
            /\ ~inv[p].isClaimResolved
            /\ inv[p].challengerDuration < inv[p].maxClockDuration =>
                  /\ InfoReturn(p)
                  /\ inv[p].msg = "challenger duration period has not passed"
            /\ inv[p].challengerDuration >= inv[p].maxClockDuration =>
                  /\ inv[p].attempts = <<ResolveClaimTx>>
                  /\ tx[p].kind \in {"none", ResolveClaimTx}
                  /\ tx[p].status = "ok" => chain.resolvedSubgames

\* C4 witness: d = M, the claim resolution was submitted and has succeeded.
C4_Witness ==
    \E p \in Procs :
        /\ Read(p, "GetChallengerDuration")
        /\ inv[p].challengerDuration = inv[p].maxClockDuration
        /\ tx[p].kind = ResolveClaimTx /\ tx[p].status = "ok"
        /\ inv[p].pc = "done" /\ inv[p].ret = "nil"

\* C5: with the subgame resolved, a resolvedAt of zero makes the command hand
\* exactly one transaction, Resolve, to the submitter (no ResolveClaim, no
\* finalization); a non-zero resolvedAt makes it submit no Resolve and go on
\* to the finalization gate.
C5_GameResolution ==
    \A p \in Procs :
        (inv[p].cmd = "finalize" /\ Read(p, "ResolvedAt")) =>
            /\ inv[p].isClaimResolved
            /\ inv[p].disputeGameResolvedAt = 0 =>
                  /\ inv[p].attempts = <<ResolveTx>>
                  /\ tx[p].kind \in {"none", ResolveTx}
            /\ inv[p].disputeGameResolvedAt # 0 =>
                  /\ ~Attempted(p, ResolveTx) /\ ~Attempted(p, ResolveClaimTx)
                  /\ tx[p].kind \in {"none", FinalizeTx}
                  /\ \/ inv[p].pc = "Gate"
                     \/ inv[p].gate # "none"
                     \/ inv[p].pc = "done" /\ inv[p].msg = "rpc"

\* C5 witness: resolvedAt was zero, Resolve was submitted and has succeeded.
C5_Witness ==
    \E p \in Procs :
        /\ Read(p, "ResolvedAt") /\ inv[p].disputeGameResolvedAt = 0
        /\ tx[p].kind = ResolveTx /\ tx[p].status = "ok"

\* C6 as claimed: no ResolveClaim is broadcast for a game whose subgame is
\* resolved at that moment, no Resolve for a game that is resolved at that
\* moment.
C6_NeverSubmitsForAdvancedGame ==
    \A p \in Procs :
        /\ tx[p].kind = ResolveClaimTx => ~tx[p].sentOn.resolvedSubgames
        /\ tx[p].kind = ResolveTx => tx[p].sentOn.resolvedAt = 0

\* C6 as amended: each precondition is read once in the invocation and is
\* implied once more by the gas estimate that precedes the broadcast.
\* ResolveClaim is submitted only by an invocation that read resolvedSubgames
\* as false and whose estimate ran on an unresolved subgame, Resolve only by
\* one that read resolvedAt as zero and whose estimate ran on an unresolved
\* game; nothing is checked between the estimate and the broadcast.
C6_PreconditionCheckedBeforeEstimate ==
    \A p \in Procs :
        /\ Attempted(p, ResolveClaimTx) =>
              Read(p, "ResolvedSubgames") /\ ~inv[p].isClaimResolved
        /\ Attempted(p, ResolveTx) =>
              Read(p, "ResolvedAt") /\ inv[p].disputeGameResolvedAt = 0
        /\ tx[p].kind = ResolveClaimTx => ~inv[p].estimatedOn.resolvedSubgames
        /\ tx[p].kind = ResolveTx => inv[p].estimatedOn.resolvedAt = 0

\* C6 witness: a ResolveClaim was broadcast after another actor had resolved
\* the subgame, and has reverted.
C6_Witness ==
    \E p \in Procs :
        /\ tx[p].kind = ResolveClaimTx /\ tx[p].status = "revert"
        /\ tx[p].sentOn.resolvedSubgames
        /\ ~inv[p].estimatedOn.resolvedSubgames

\* C7: two callers run finalize concurrently on one game with no lock between
\* them. The game's subgame is resolved at most once and the game at most
\* once; a caller whose resolution transaction did not execute successfully
\* never ends with a success report, and the caller whose transaction was
\* executed and reverted ends with an error: the revert error when the receipt
\* reached it.
C7_OneResolutionSucceeds ==
    /\ chain.claimResolutions <= 1
    /\ chain.gameResolutions <= 1
    /\ \A p \in Procs :
          (Attempted(p, ResolveClaimTx) \/ Attempted(p, ResolveTx)) =>
              /\ (inv[p].pc = "done" /\ tx[p].status # "ok") => inv[p].ret = "error"
              /\ (inv[p].pc = "done" /\ tx[p].status = "revert") =>
                    inv[p].msg \in {"failure in transaction execution",
                                    "failed to get transaction receipt"}
              /\ inv[p].msg = "failure in transaction execution" => tx[p].status = "revert"

\* C7 witness: both callers sent a claim resolution for the same game; the
\* one of caller a succeeded, the one of caller b reverted and b has ended
\* with the revert error.
C7_Witness ==
    /\ tx["a"].kind = ResolveClaimTx /\ tx["a"].status = "ok"
    /\ tx["b"].kind = ResolveClaimTx /\ tx["b"].status = "revert"
    /\ inv["b"].pc = "done"
    /\ inv["b"].msg = "failure in transaction execution"
    /\ chain.claimResolutions = 1

\* C8: the finalization is submitted only after the checkWithdrawal dry run,
\* and an error of the dry run ends the command with a hard error, nothing
\* submitted.
C8_CheckWithdrawalGuardsFinalize ==
    \A p \in Procs :
        inv[p].cmd = "finalize" =>
            /\ Attempted(p, FinalizeTx) => Read(p, "CheckWithdrawal")
            /\ (Read(p, "CheckWithdrawal") /\ inv[p].checkErr = "error") =>
                  /\ inv[p].pc = "done" /\ inv[p].ret = "error"
                  /\ inv[p].msg = "call to OptimismPortal.CheckWithdrawal failed"
                  /\ inv[p].attempts = <<>> /\ tx[p] = NoTx

\* C8 witness: the dry run failed because the withdrawal was finalized by
\* another actor after the command had read it as not finalized.
C8_Witness ==
    \E p \in Procs :
        /\ Read(p, "CheckWithdrawal") /\ inv[p].checkErr = "error"
        /\ Read(p, "FinalizedWithdrawals") /\ ~inv[p].withdrawalFinalized
        /\ chain.finalized

\* C9 as claimed: each of the protocol states 'not yet proven', 'no game
\* covers the withdrawal block yet', 'challenge window open' and 'a delay not
\* elapsed' ends the command with nil and nothing submitted.
C9_NotReadyIsInformational ==
    \A p \in Procs :
        inv[p].pc = "done" =>
            /\ (inv[p].cmd = "finalize" /\ Read(p, "ProvenWithdrawals")
                    /\ inv[p].provenTimestamp = 0) => InfoReturn(p)
            /\ (inv[p].cmd = "prove" /\ Read(p, "FindLatestGame")
                    /\ inv[p].gameL2BlockNumber < conf.wdBlock) => InfoReturn(p)
            /\ (inv[p].cmd = "finalize" /\ Read(p, "GetChallengerDuration")
                    /\ inv[p].challengerDuration < inv[p].maxClockDuration) => InfoReturn(p)
            /\ inv[p].gate = "closed" => InfoReturn(p)

\* C1: over the calls of the list command, interleaved with chain steps that
\* only advance the facts, the status a call returns is never earlier in the
\* enumeration than a status an earlier call returned; in particular nothing
\* earlier than Finalized is returned after Finalized.
C1_StatusNeverRegresses ==
    \A v \in Variants :
        /\ Rank(listed[v].last) >= Rank(listed[v].best)
        /\ listed[v].best = "Finalized" => listed[v].last = "Finalized"

\* C1 witness: ListCommand has returned Initialized, and later, the game
\* anchored, the withdrawal proven and the subgame resolved, ClaimResolved.
C1_Witness ==
    /\ listed["ListCommand"].best = "Initialized"
    /\ listed["ListCommand"].last = "ClaimResolved"

\* C10 as claimed: in every listing variant the withdrawal is Provable or
\* later exactly when the latest game's block, as the call read it, is greater
\* than or equal to the withdrawal's block.
C10_ProvableIffGameCoversBlock ==
    \A v \in Variants :
        listed[v].last # "none" =>
            (Rank(listed[v].last) >= Rank("Provable")
                <=> listed[v].gameL2BlockNumber >= conf.wdBlock)

C12_ClaimResolvedIffSubgameResolved ==
    LET last == listed["ListCommand"].last
    IN  Rank(last) >= Rank("Proven") =>
            (Rank(last) >= Rank("ClaimResolved") <=> chain.resolvedSubgames)

\* C12 witness: on snapshots with a proof record, ListCommand has returned
\* ClaimResolved (the flag being set).
C12_Witness ==
    /\ listed["ListCommand"].last = "ClaimResolved"
    /\ chain.resolvedSubgames
    /\ chain.proven.Timestamp # 0

\* A snapshot the contracts can be in: a proof record has both fields or
\* none and is made against a game that covers the withdrawal; a game is
\* resolved after its subgame; a withdrawal is finalized after its game is
\* resolved.
Consistent(c) ==
    /\ (c.proven.Timestamp # 0) <=> (c.proven.DisputeGameProxy # NullAddress)
    /\ c.proven.Timestamp # 0 => (c.latestGame # NoGame /\ c.latestGame >= conf.wdBlock)
    /\ c.resolvedAt # 0 => c.resolvedSubgames
    /\ c.finalized => (c.proven.Timestamp # 0 /\ c.resolvedAt # 0)

\* C13 as claimed: for a withdrawal whose claim is resolved, ListCommand
\* returns GameResolved (or later) whenever the game's resolvedAt is non-zero.
C13_GameResolvedWhenResolvedAtSet ==
    LET last == listed["ListCommand"].last
    IN  (Consistent(chain) /\ Rank(last) >= Rank("ClaimResolved") /\ chain.resolvedAt # 0) =>
            Rank(last) >= Rank("GameResolved")

\* C14 as claimed: whenever the portal's finalizedWithdrawals flag of the
\* withdrawal is true, as it is after a successful finalization, the status
\* ListCommand returns is Finalized.
C14_FinalizedWhenFlagSet ==
    LET last == listed["ListCommand"].last
    IN  (Consistent(chain) /\ last # "none" /\ chain.finalized) => last = "Finalized"

\* C15 as claimed: while no dispute game exists, a call of ListCommand that
\* no RPC failure interrupts is not an error and reports the withdrawal as
\* Initialized.
C15_NoGameIsInitialized ==
    (chain.latestGame = NoGame /\ lister.variant = "ListCommand"
        /\ lister.pc = "done" /\ lister.msg # "rpc") =>
            /\ lister.ret = "nil"
            /\ lister.status = "Initialized"

\* C16: on a fixed snapshot of the facts every call of a list command that
\* returns a status returns the same status as the calls before it, and no
\* step of a list command changes a fact.
C16_ClassificationIdempotent ==
    /\ [](\A v \in Variants :
            listed[v].best # "none" => listed[v].last = listed[v].best)
    /\ [][chain' = chain]_vars

\* C16 witness: ListCommand has classified the same proven withdrawal in two
\* calls.
C16_Witness ==
    /\ listed["ListCommand"].best = "Proven"
    /\ listed["ListCommand"].last = "Proven"
    /\ lister.n >= 2

\* C18: a command that sent a transaction reports success only after a
\* receipt with the success status; once the transaction has the revert
\* status the command is waiting for the receipt or has returned an error
\* (the revert error whenever the receipt reached it), and no later step of
\* the command has run.
C18_SuccessOnlyWithSuccessfulReceipt ==
    \A p \in Procs :
        /\ (inv[p].pc = "done" /\ inv[p].ret = "nil" /\ inv[p].attempts # <<>>) =>
              tx[p].status = "ok"
        /\ tx[p].status = "revert" =>
              /\ inv[p].pc \in {"ForReceiptOK", "done"}
              /\ inv[p].pc = "done" =>
                    /\ inv[p].ret = "error"
                    /\ inv[p].msg \in {"failure in transaction execution",
                                       "failed to get transaction receipt"}
        /\ inv[p].msg = "failure in transaction execution" => tx[p].status = "revert"

\* C18 witness: the proof transaction of prove reverted (another account had
\* proven meanwhile) and prove has returned the revert error.
C18_Witness ==
    \E p \in Procs :
        /\ inv[p].cmd = "prove"
        /\ tx[p].kind = ProveTx /\ tx[p].status = "revert"
        /\ inv[p].pc = "done" /\ inv[p].ret = "error"
        /\ inv[p].msg = "failure in transaction execution"

\* C19: an invocation of prove, finalize, init or deposit hands at most one
\* transaction to the submitter, whatever fails; the transaction it has
\* broadcast is that one, and an invocation that ended after a failed
\* estimate, broadcast, receipt or a revert has returned an error.
C19_NoRetryInsideInvocation ==
    \A p \in Procs :
        /\ Len(inv[p].attempts) <= 1
        /\ tx[p].kind # "none" => inv[p].attempts = <<tx[p].kind>>
        /\ (inv[p].pc = "done" /\ inv[p].attempts # <<>> /\ tx[p].status # "ok") =>
              inv[p].ret = "error"

\* C19 witness: the bridge transaction of deposit reverted and deposit has
\* returned, having handed that one transaction to the submitter.
C19_Witness ==
    \E p \in Procs :
        /\ inv[p].cmd = "deposit"
        /\ tx[p].kind = DepositETHToTx /\ tx[p].status = "revert"
        /\ inv[p].pc = "done" /\ inv[p].ret = "error"
        /\ inv[p].attempts = <<DepositETHToTx>>

\* C17 as claimed: a command that waits for the receipt of its transaction
\* leaves the wait, with success, the revert error or an error for the
\* receipt that did not arrive.
C17_ReceiptWaitEnds ==
    \A p \in Procs :
        (inv[p].pc = "ForReceiptOK") ~> (inv[p].pc # "ForReceiptOK")

\* Every entry of the list has been marked ready by the call.
EveryEndpointReported ==
    \A k \in 1..Len(waiter.clients) : waiter.clients[k] \in waiter.readyClients

C21_ReadyOnlyAboveGenesis ==
    LET ObservedAboveZero ==
            {c \in Endpoints : \E number \in waiter.answers[c] : number > 0}
    IN  /\ waiter.ret = "nil" =>
               \A k \in 1..Len(waiter.clients) :
                   waiter.clients[k] \in ObservedAboveZero
        /\ waiter.readyClients \subseteq ObservedAboveZero

\* Two endpoints, one of them polled at the genesis block first, and nil is
\* returned.
C21_Witness ==
    /\ waiter.ret = "nil"
    /\ Len(waiter.clients) = 2
    /\ waiter.clients[1] # waiter.clients[2]
    /\ \E c \in Endpoints : 0 \in waiter.answers[c]

\* A step taken by the body of the range over clients.
RangeBody ==
    /\ waiter.pc = "sweep" /\ waiter.i <= Len(waiter.clients)
    /\ waiter' # waiter
    /\ waiter'.heads = waiter.heads /\ waiter'.expired = waiter.expired

\* C22: within one call the ready set only grows, and the iteration of the
\* range over a client that is already ready makes no HeaderByNumber call.
C22_ReadySetMonotonic ==
    [][ /\ waiter.readyClients \subseteq waiter'.readyClients
        /\ (RangeBody /\ waiter.clients[waiter.i] \in waiter.readyClients) =>
               /\ waiter'.polled = "none"
               /\ waiter'.answers = waiter.answers ]_vars

\* A ready endpoint whose head is back at block 0 is passed over by a later
\* tick and stays ready.
C22_Witness ==
    /\ waiter.pc = "sweep" /\ waiter.i = 2
    /\ waiter.clients[1] \in waiter.readyClients
    /\ waiter.heads[waiter.clients[1]] = 0
    /\ waiter.polled = "none"

\* C23: an iteration whose HeaderByNumber call fails leaves the ready set
\* unchanged, returns nothing and goes on to the next client of the range;
\* and every iteration over a client that is not ready calls HeaderByNumber,
\* so the client is polled again on the next tick.
C23_FetchErrorTolerated ==
    [][ /\ (RangeBody /\ waiter'.err) =>
               /\ waiter'.readyClients = waiter.readyClients
               /\ waiter'.pc = "sweep" /\ waiter'.ret = "none"
               /\ waiter'.i = waiter.i + 1
        /\ (RangeBody /\ waiter.clients[waiter.i] \notin waiter.readyClients)
               => waiter'.polled = waiter.clients[waiter.i] ]_vars

\* On a later tick the call to the first endpoint has just failed, with the
\* second endpoint ready from an earlier tick, and the call goes on.
C23_Witness ==
    /\ Len(waiter.clients) = 2
    /\ waiter.clients[1] # waiter.clients[2]
    /\ waiter.pc = "sweep" /\ waiter.i = 2 /\ waiter.ret = "none"
    /\ waiter.polled = waiter.clients[1] /\ waiter.err
    /\ waiter.readyClients = {waiter.clients[2]}

\* C24 as claimed: in every command a chain is read from or submitted to only
\* after WaitForChainsStart has returned nil for it, and a command whose
\* gate timed out has returned an error.
C24_ReadinessPrecedesAccess ==
    /\ run.accessed \subseteq run.ready
    /\ run.msg = "client has not started" => run.ret = "error"

\* C25: a command entered with a malformed or zero address or an invalid
\* amount submits no transaction, does not get past its argument checks and,
\* once it has returned, has returned an error.
C25_InvalidArgumentsRejected ==
    LET InvalidCommandLine ==
            \/ \E a \in AddressArgs(run.cmd) : run.args[a].kind # "valid"
            \/ \E a \in AmountArgs(run.cmd) : ~run.args[a].valid
    IN  (run.cmd \in DOMAIN Programs /\ InvalidCommandLine) =>
            /\ run.submitted = <<>>
            /\ run.pc <= Len(Programs[run.cmd])
            /\ run.ret \in {"none", "error"}

\* The deposit command has connected to both chains and read from them, and
\* returns the error of the zero address given as the bridge's.
C25_Witness ==
    /\ run.cmd = "DepositCommand"
    /\ run.args["l1-standard-bridge-address"].kind = "zero"
    /\ run.ret = "error" /\ run.msg = "zero address is not allowed"
    /\ run.accessed = {"l1", "l2"}
    /\ run.submitted = <<>>

\* C26 as claimed: the transaction the send command submits transfers the
\* amount given to the address given as recipient.
C26_SendTransfersToRecipient ==
    run.cmd = "SendCommand" =>
        \A k \in 1..Len(run.submitted) :
            /\ run.submitted[k].To = run.parsed["recipient"]
            /\ run.submitted[k].Value = run.parsed["amount"]

\* C27 as claimed: when SendTx returns an error, send and sendOnReady return
\* an error and do not log the success message.
C27_SendFailureReturnsError ==
    (run.cmd \in {"SendCommand", "SendOnReadyCommand"}
        /\ run.sendErr \notin {"none", "nil"}) =>
        /\ run.ret = "error"
        /\ "successfully sent transaction" \notin run.log

\* C28: DecodeVersionedNonce returns its argument modulo 2^NonceBits: the
\* version bits are dropped and the bits below them are kept.
C28_NonceIsLowBits ==
    calc.fn = "DecodeVersionedNonce" =>
        \A k \in 1..Len(calc.out) :
            calc.out[k] = calc.in.nonce % (2 ^ NonceBits)

\* A nonce of version 1 and value 5 has been decoded to 5.
C28_Witness ==
    /\ calc.fn = "DecodeVersionedNonce"
    /\ calc.in.nonce = 2 ^ NonceBits + 5
    /\ Len(calc.out) > 0 /\ calc.out[1] = 5

\* A printed decimal number read back as a count of units of 10^-decimals.
ParseDecimal(s, decimals) ==
    LET negative == s # <<>> /\ s[1] = "-"
        digits == IF negative THEN Tail(s) ELSE s
        point == IF \E k \in 1..Len(digits) : digits[k] = "."
                 THEN CHOOSE k \in 1..Len(digits) : digits[k] = "." ELSE 0
        whole == IF point = 0 THEN digits ELSE SubSeq(digits, 1, point - 1)
        fraction == IF point = 0 THEN <<>>
                    ELSE SubSeq(digits, point + 1, Len(digits))
        units == DecimalValue(whole) * 10 ^ decimals
                 + DecimalValue(fraction \o Zeros(decimals - Len(fraction)))
    IN  IF negative THEN 0 - units ELSE units

\* C29: the string FormatBigInt prints for an amount and a count of base
\* decimals, read back as a decimal number scaled by that count, is the
\* amount.
C29_FormatRoundTrip ==
    calc.fn = "FormatBigInt" =>
        \A k \in 1..Len(calc.out) :
            ParseDecimal(calc.out[k], calc.in.baseDecimals) = calc.in.amount

\* A negative amount whose fraction starts with a zero has been printed.
C29_Witness ==
    /\ calc.fn = "FormatBigInt"
    /\ calc.in.amount = 0 - 105 /\ calc.in.baseDecimals = 2
    /\ Len(calc.out) > 0 /\ calc.out[1] = <<"-", "1", ".", "0", "5">>

C37_ConversionKeepsComparison ==
    calc.fn = "ChallengePeriodOpen" =>
        \A k \in 1..Len(calc.out) :
            calc.out[k] =
                (calc.in.challengerDuration < calc.in.maxClockDuration)

\* C39 as claimed: for every amount and every count N > 0 of base decimals
\* the string FormatBigInt prints has exactly N digits after a decimal point.
C39_AllDecimalPlacesShown ==
    (calc.fn = "FormatBigInt" /\ calc.in.baseDecimals > 0) =>
        \A k \in 1..Len(calc.out) :
            LET s == calc.out[k]
            IN  \E point \in 1..Len(s) :
                    /\ s[point] = "."
                    /\ Len(s) - point = calc.in.baseDecimals

\* C32: an invocation of finalize hands at most one transaction to the
\* submitter, and an invocation whose transaction is a claim resolution or a
\* game resolution is waiting for its receipt or has returned without reading
\* the next stage; so when callers of finalize alone advance a proven
\* withdrawal whose subgame is unresolved, the withdrawal is finalized only
\* after at least three invocations.
C32_OneTransactionPerInvocation ==
    /\ [](\A p \in Procs :
            inv[p].cmd = "finalize" =>
              /\ Len(inv[p].attempts) <= 1
              /\ tx[p].kind \in {ResolveClaimTx, ResolveTx} =>
                    /\ inv[p].pc \in {"ForReceiptOK", "done"}
                    /\ inv[p].attempts = <<tx[p].kind>>
                    /\ inv[p].gate = "none"
                    /\ ~Read(p, "FinalizedWithdrawals")
                    /\ tx[p].kind = ResolveClaimTx => ~Read(p, "ResolvedAt"))
    /\ (~chain.resolvedSubgames) => [](chain.finalized => Invocations >= 3)

\* C32 witness: the withdrawal is finalized by the third invocation: one
\* caller's only invocation resolved the claim, the other caller's second
\* invocation sent the finalization after its first resolved the game.
C32_Witness ==
    /\ chain.finalized /\ Invocations = 3
    /\ inv["b"].n = 1 /\ tx["b"].kind = ResolveClaimTx /\ tx["b"].status = "ok"
    /\ inv["b"].pc = "done" /\ inv["b"].ret = "nil"
    /\ inv["a"].n = 2 /\ tx["a"].kind = FinalizeTx /\ tx["a"].status = "ok"
    /\ chain.gameResolutions = 1

\* C34: an invocation of finalize that began with the withdrawal recorded as
\* finalized hands no transaction to the submitter and broadcasts none; when
\* its reads succeed it returns nil with the already-finalized log, and it
\* returns an error only when a read failed. The portal records at most one
\* finalization.
C34_FinalizedIsNoOp ==
    /\ chain.finalizations <= 1
    /\ \A p \in Procs :
          (inv[p].cmd = "finalize" /\ inv[p].finalizedAtStart) =>
            /\ inv[p].attempts = <<>> /\ tx[p] = NoTx
            /\ inv[p].pc = "done" =>
                  \/ inv[p].ret = "nil" /\
                     inv[p].msg = "withdrawal proof has already been finalized"
                  \/ inv[p].ret = "error" /\ inv[p].msg = "rpc"

\* C34 witness: the caller's last command is a finalize on the withdrawal
\* that was finalized before the command began; it has read the flag and
\* returned nil.
C34_Witness ==
    \E p \in Procs :
        /\ inv[p].cmd = "finalize" /\ inv[p].finalizedAtStart
        /\ inv[p].n = MaxInvocations
        /\ inv[p].pc = "done" /\ inv[p].ret = "nil"
        /\ Read(p, "FinalizedWithdrawals") /\ inv[p].withdrawalFinalized

\* C36: for ListCommand, a returned status of Proven or later means the
\* latest game's block is at or above the withdrawal's block and the proof
\* record's game address is not null; ClaimResolved means in addition that
\* the game's subgame-resolved flag is set; and a classification is at or
\* past the proof read, or has made a proof or game read, only for a
\* withdrawal it found provable.
C36_StatusMeetsStagesBelow ==
    lister.variant = "ListCommand" =>
      /\ (lister.pc = "done" /\ lister.ret = "nil" /\
          Rank(lister.status) >= Rank("Proven")) =>
            /\ lister.gameL2BlockNumber >= conf.wdBlock
            /\ chain.latestGame >= conf.wdBlock
            /\ chain.proven.DisputeGameProxy # NullAddress
            /\ lister.status = "ClaimResolved" => chain.resolvedSubgames
      /\ (lister.reads # {} \/ lister.pc \in {"ProvenWithdrawals", "ResolvedSubgames"}) =>
            /\ lister.gameL2BlockNumber # NoGame
            /\ lister.gameL2BlockNumber >= conf.wdBlock

\* C36 witness: ListCommand returned ClaimResolved for a withdrawal whose
\* block is the latest game's, after the proof read and the game read.
C36_Witness ==
    /\ lister.variant = "ListCommand"
    /\ lister.pc = "done" /\ lister.ret = "nil" /\ lister.status = "ClaimResolved"
    /\ lister.gameL2BlockNumber = conf.wdBlock
    /\ lister.reads = {"ProvenWithdrawals", "ResolvedSubgames"}
    /\ chain.resolvedSubgames

\* C31 as claimed: when two callers have each run finalize once, for
\* withdrawals proven against one game and not yet finalized, their results
\* are those of the two invocations run one after the other in some order:
\* the first saw no revert of a resolution, the second saw one only if the
\* first had returned with the same resolution still in flight, and the
\* second did not send the resolution whose success the first had reported.
C31_ResultsAreSequential ==
    LET RevertSeen(p) ==
            /\ inv[p].msg = "failure in transaction execution"
            /\ tx[p].kind \in {ResolveClaimTx, ResolveTx}
        Sequential(p, q) ==
            /\ ~RevertSeen(p)
            /\ RevertSeen(q) => (tx[p].kind = tx[q].kind /\ inv[p].ret = "error")
            /\ (inv[p].ret = "nil" /\ tx[p].status = "ok" /\
                tx[p].kind \in {ResolveClaimTx, ResolveTx}) =>
                    tx[q].kind # tx[p].kind
    IN  (/\ chain.finalizations = 0
         /\ \A p \in Procs : /\ inv[p].cmd = "finalize" /\ inv[p].n = 1
                              /\ inv[p].pc = "done") =>
            \/ Sequential("a", "b")
            \/ Sequential("b", "a")

\* C35: on the same latest game and the same withdrawal block, the prove
\* command goes on to build and submit its transaction exactly when
\* ListCommand returns Provable or a later status; when it does not go on it
\* has returned the not-proposed error and has handed nothing to the
\* submitter.
C35_ProveAgreesWithClassifier ==
    \A p \in Procs :
        LET rejected == inv[p].msg = "game for this withdrawal has not been proposed yet"
        IN  (inv[p].cmd = "prove" /\ Read(p, "FindLatestGame")) =>
              /\ rejected =>
                    /\ inv[p].pc = "done" /\ inv[p].ret = "error"
                    /\ inv[p].attempts = <<>> /\ tx[p] = NoTx
              /\ (lister.variant = "ListCommand" /\ lister.pc = "done" /\
                  lister.ret = "nil") =>
                    /\ lister.gameL2BlockNumber = inv[p].gameL2BlockNumber
                    /\ ~rejected <=> Rank(lister.status) >= Rank("Provable")

\* C35 witness: the latest game is at the withdrawal's own block; ListCommand
\* has returned Provable and the prove command has broadcast its transaction.
C35_Witness ==
    \E p \in Procs :
        /\ inv[p].cmd = "prove" /\ inv[p].gameL2BlockNumber = conf.wdBlock
        /\ tx[p].kind = ProveTx /\ tx[p].status = "pending"
        /\ lister.variant = "ListCommand" /\ lister.pc = "done"
        /\ lister.status = "Provable"

\* C38: deposit returns nil only after the L1 bridge transaction has a
\* successful receipt, the TransactionDeposited event was found in it and the
\* derived L2 transaction has a successful receipt; the event is searched
\* only in a successful L1 receipt, the wait on L2 starts only after the
\* event was found, and a deposit that ended short of the three has returned
\* an error.
C38_DepositReportsAfterBothReceipts ==
    \A p \in Procs :
        inv[p].cmd = "deposit" =>
          LET l1ok == tx[p].kind = DepositETHToTx /\ tx[p].status = "ok"
              found == Read(p, "TransactionDeposited")
              l2ok == inv[p].depositStatus = "ok"
          IN  /\ (inv[p].pc = "FindLog" \/ found) => l1ok
              /\ (inv[p].pc = "DepositReceipt" \/ inv[p].depositStatus # "none") =>
                    (l1ok /\ found)
              /\ inv[p].ret = "nil" => (l1ok /\ found /\ l2ok)
              /\ inv[p].pc = "done" =>
                    /\ inv[p].ret \in {"nil", "error"}
                    /\ inv[p].ret = "error" <=> ~(l1ok /\ found /\ l2ok)

\* C38 witness: the L1 transaction succeeded and its event was found; the
\* deposit transaction reverted on L2 and deposit has returned that error.
C38_Witness ==
    \E p \in Procs :
        /\ inv[p].cmd = "deposit" /\ inv[p].pc = "done"
        /\ tx[p].kind = DepositETHToTx /\ tx[p].status = "ok"
        /\ Read(p, "TransactionDeposited")
        /\ inv[p].depositStatus = "revert"
        /\ inv[p].ret = "error" /\ inv[p].msg = "failure in deposit execution"

\* C33: on a proven withdrawal, if the caller runs finalize again and again,
\* the challenger clock reaches the maximum clock duration, the two delays
\* elapse once the game is resolved, and again and again an invocation ends
\* without error (its reads were answered and the transaction it sent, if
\* any, was executed successfully), then the portal eventually records the
\* finalization. The clock and the delays, once reached, stay reached.
C33_EventuallyFinalized ==
    (/\ []<>(inv["a"].pc = "start")
     /\ <>[](GetChallengerDuration(now) >= conf.maxClockDuration)
     /\ <>[](chain.resolvedAt # 0 =>
               /\ now >= chain.proven.Timestamp + conf.proofMaturityDelaySeconds
               /\ now >= chain.resolvedAt + conf.finalityDelaySeconds)
     /\ []<>(inv["a"].pc = "done" /\ inv["a"].ret = "nil"))
    => <>chain.finalized

\* C33 witness: the caller's finalization of a game with the longest clock
\* has been executed and the command has reported it.
C33_Witness ==
    /\ chain.finalized /\ chain.finalizations = 1
    /\ conf.maxClockDuration = MaxClock
    /\ tx["a"].kind = FinalizeTx /\ tx["a"].status = "ok"
    /\ inv["a"].pc = "done" /\ inv["a"].ret = "nil"
    /\ inv["a"].msg = "successfully finalized withdrawal transaction"

====
